---- MODULE Spec2Model ----
(***************************************************************************)
(* browser-mock-api: the interception-and-dispatch pipeline.               *)
(*                                                                         *)
(*   RouteMatcher        ordered registry of (method, pattern) -> handler  *)
(*   MiddlewarePipeline  ordered middleware around a terminal operation    *)
(*   EventEmitter        lifecycle listeners on an EventTarget             *)
(*   FetchWrapper        wrappedFetch / forwardToOriginalFetch             *)
(*                                                                         *)
(* Strings that the code inspects character by character (path segments,   *)
(* percent-encoded parameter values) are sequences of one-character        *)
(* strings; a path is the sequence of its segments.                        *)
(***************************************************************************)
EXTENDS Integers, Sequences, FiniteSets, TLC

VARIABLES
  routes,       \* RouteMatcher.routes: the Map, as the sequence of its entries in iteration order
  middlewares,  \* MiddlewarePipeline.middlewares
  evTarget,     \* EventEmitter: the EventTarget's wrapper listeners per event type, in order
  calls,        \* the intercepted calls: one record per call of wrappedFetch
  handlerMap,   \* EventEmitter.handlerMap: per event type, handler -> its wrapper, in insertion order
  heard,        \* every invocation of an event handler made for the intercepted calls, in order
  lastMatch,    \* the direct RouteMatcher.match call just made, if the latest registry operation was one
  returned,     \* value returned by the most recent unregister or off
  registered,   \* per event type, the handlers subscribed with on and not unsubscribed since, in order
  removed,      \* per event type, the handlers whose latest on / off / cleanup was a removal
  lastOp,       \* the direct EventEmitter call just made and what it did
  lastRoute,    \* the direct RouteMatcher call just made and where its key stood before it
  globalFetch,  \* globalThis.fetch: the ambient fetch entry point
  wrappers,     \* the FetchWrapper instances constructed, in order of construction
  apiMock,      \* ApiMock.isInitialized and ApiMock.fetchWrapper
  lastApi,      \* the lifecycle call just made and what it did
  stores,       \* StateStoreManager.stores: the Map, as the sequence of its entries
  containers,   \* the StateStore instances constructed, in order of construction
  heap,         \* the objects callers and updaters created, by identity
  lastStore,    \* the state-store call just made and what it did
  issued,       \* per StateStore instance, the increment updates issued since its value was set
  updaters      \* the invocations of async updater functions, in order of invocation

life == <<globalFetch, wrappers, apiMock>>

state == <<stores, containers, heap, lastStore, issued, updaters>>

vars == <<routes, middlewares, evTarget, handlerMap, calls, heard, lastMatch, returned,
          registered, removed, lastOp, lastRoute, lastApi, life, state>>

----------------------------------------------------------------------------
(* Bounds *)

MaxRoutes == 2      \* registry size explored
MaxMw == 2          \* middleware registered
MaxListeners == 1   \* event listeners registered

----------------------------------------------------------------------------
(* Strings *)

S_users == <<"u","s","e","r","s">>
S_posts == <<"p","o","s","t","s">>
S_files == <<"f","i","l","e","s">>
S_42 == <<"4","2">>
S_me == <<"m","e">>
S_a20b == <<"a","%","2","0","b">>          \* "a%20b"
S_c3a9 == <<"%","c","3","%","a","9">>      \* "%c3%a9", UTF-8 of U+00E9
S_badpct == <<"%","z","z">>                \* "%zz": '%' not followed by two hex digits
S_lone == <<"%","e","9">>                  \* "%e9": a lone byte that is not valid UTF-8

Undefined == <<"undefined">>   \* JavaScript undefined (never equal to a string of characters)

HexDigits == {"0","1","2","3","4","5","6","7","8","9","a","b","c","d","e","f"}

HexVal(ch) ==
  CASE ch = "0" -> 0 [] ch = "1" -> 1 [] ch = "2" -> 2 [] ch = "3" -> 3
    [] ch = "4" -> 4 [] ch = "5" -> 5 [] ch = "6" -> 6 [] ch = "7" -> 7
    [] ch = "8" -> 8 [] ch = "9" -> 9 [] ch = "a" -> 10 [] ch = "b" -> 11
    [] ch = "c" -> 12 [] ch = "d" -> 13 [] ch = "e" -> 14 [] ch = "f" -> 15

\* the character with code point n
CharOf(n) == IF n = 32 THEN " " ELSE "\\u" \o ToString(n)

\* the byte written as %XX at position i of s, or -1 when there is no such escape
ByteAt(s, i) ==
  IF i + 2 <= Len(s) /\ s[i] = "%" /\ s[i+1] \in HexDigits /\ s[i+2] \in HexDigits
  THEN 16 * HexVal(s[i+1]) + HexVal(s[i+2])
  ELSE -1

\* number of continuation bytes a UTF-8 lead byte announces, -1 for an invalid lead byte
Continuations(b) ==
  IF b < 128 THEN 0
  ELSE IF b >= 194 /\ b <= 223 THEN 1
  ELSE IF b >= 224 /\ b <= 239 THEN 2
  ELSE IF b >= 240 /\ b <= 244 THEN 3
  ELSE -1

RECURSIVE ContinuationValue(_, _, _, _)
\* value of k continuation bytes starting at i, accumulated onto acc; -1 when one is missing
ContinuationValue(s, i, k, acc) ==
  IF k = 0 THEN acc
  ELSE LET b == ByteAt(s, i) IN
       IF b >= 128 /\ b <= 191
       THEN ContinuationValue(s, i + 3, k - 1, acc * 64 + (b - 128))
       ELSE -1

URIError == [ok |-> FALSE, val |-> <<>>]

RECURSIVE DecodeFrom(_, _)
DecodeFrom(s, i) ==
  IF i > Len(s) THEN [ok |-> TRUE, val |-> <<>>]
  ELSE IF s[i] # "%"
       THEN LET r == DecodeFrom(s, i + 1) IN
            IF r.ok THEN [ok |-> TRUE, val |-> <<s[i]>> \o r.val] ELSE URIError
       ELSE LET b == ByteAt(s, i)
                k == Continuations(b)
            IN IF b < 0 \/ k < 0 THEN URIError
               ELSE LET lead == IF k = 0 THEN b
                                ELSE IF k = 1 THEN b - 192
                                ELSE IF k = 2 THEN b - 224
                                ELSE b - 240
                        cp == ContinuationValue(s, i + 3, k, lead)
                    IN IF cp < 0 THEN URIError
                       ELSE LET r == DecodeFrom(s, i + 3 * (k + 1)) IN
                            IF r.ok THEN [ok |-> TRUE, val |-> <<CharOf(cp)>> \o r.val]
                            ELSE URIError

\* decodeURIComponent: the decoded string, or URIError (the call throws)
decodeURIComponent(s) == DecodeFrom(s, 1)

\* String.prototype.toUpperCase on the method spellings used
toUpperCase(m) ==
  CASE m \in {"GET", "get", "Get"} -> "GET"
    [] m \in {"POST", "post"} -> "POST"
    [] OTHER -> m

RECURSIVE Join(_)
\* segments joined by "/"
Join(segs) ==
  IF segs = <<>> THEN <<>>
  ELSE IF Len(segs) = 1 THEN segs[1]
  ELSE segs[1] \o <<"/">> \o Join(Tail(segs))

----------------------------------------------------------------------------
(* Path patterns (path-to-regexp).  A pattern is its sequence of tokens.   *)

Lit(s) == [t |-> "lit", v |-> s]
Param(n) == [t |-> "param", v |-> n]       \* :name
Opt(n) == [t |-> "opt", v |-> n]           \* :name?
Wild == [t |-> "wild", v |-> "(.*)"]       \* (.*)

P_users == <<Lit(S_users)>>                    \* "/users"
P_users_id == <<Lit(S_users), Param("id")>>    \* "/users/:id"
P_users_42 == <<Lit(S_users), Lit(S_42)>>      \* "/users/42"
P_users_opt == <<Lit(S_users), Opt("id")>>     \* "/users/:id?"
P_files_wild == <<Lit(S_files), Wild>>         \* "/files/(.*)"

RECURSIVE KeysFrom(_, _)
KeysFrom(toks, n) ==
  IF toks = <<>> THEN <<>>
  ELSE LET t == Head(toks) IN
       IF t.t = "lit" THEN KeysFrom(Tail(toks), n)
       ELSE IF t.t = "wild" THEN <<ToString(n)>> \o KeysFrom(Tail(toks), n + 1)
       ELSE <<t.v>> \o KeysFrom(Tail(toks), n)

\* the keys pathToRegexp(path, keys) fills in: parameter names, unnamed groups numbered from 0
Keys(pattern) == KeysFrom(pattern, 0)

NoExec == [ok |-> FALSE, caps |-> <<>>]

RECURSIVE Exec(_, _)
RECURSIVE ExecWild(_, _, _)
\* the wildcard group is greedy: the longest run of k segments that lets the rest match
ExecWild(toks, segs, k) ==
  IF k < 1 THEN NoExec
  ELSE LET r == Exec(Tail(toks), SubSeq(segs, k + 1, Len(segs))) IN
       IF r.ok THEN [ok |-> TRUE, caps |-> <<Join(SubSeq(segs, 1, k))>> \o r.caps]
       ELSE ExecWild(toks, segs, k - 1)

\* route.pattern.exec(path): the capture groups (Undefined for a group that did not
\* take part), or NoExec when the path does not match
Exec(toks, segs) ==
  IF toks = <<>> THEN (IF segs = <<>> THEN [ok |-> TRUE, caps |-> <<>>] ELSE NoExec)
  ELSE LET t == Head(toks) IN
    CASE t.t = "lit" ->
           IF segs # <<>> /\ Head(segs) = t.v THEN Exec(Tail(toks), Tail(segs)) ELSE NoExec
      [] t.t = "param" ->
           IF segs # <<>> /\ Head(segs) # <<>>
           THEN LET r == Exec(Tail(toks), Tail(segs)) IN
                IF r.ok THEN [ok |-> TRUE, caps |-> <<Head(segs)>> \o r.caps] ELSE NoExec
           ELSE NoExec
      [] t.t = "opt" ->
           LET r1 == IF segs # <<>> /\ Head(segs) # <<>>
                     THEN Exec(Tail(toks), Tail(segs)) ELSE NoExec
           IN IF r1.ok THEN [ok |-> TRUE, caps |-> <<Head(segs)>> \o r1.caps]
              ELSE LET r2 == Exec(Tail(toks), segs) IN
                   IF r2.ok THEN [ok |-> TRUE, caps |-> <<Undefined>> \o r2.caps] ELSE NoExec
      [] t.t = "wild" -> ExecWild(toks, segs, Len(segs))

----------------------------------------------------------------------------
(* RouteMatcher *)

EmptyParams == [k \in {} |-> <<>>]

Put(f, k, v) == [x \in (DOMAIN f) \cup {k} |-> IF x = k THEN v ELSE f[x]]

RECURSIVE extractParamsFrom(_, _, _, _)
extractParamsFrom(keys, caps, i, params) ==
  IF i > Len(keys) THEN [ok |-> TRUE, params |-> params]
  ELSE IF caps[i] = Undefined THEN extractParamsFrom(keys, caps, i + 1, params)
  ELSE LET d == decodeURIComponent(caps[i]) IN
       IF d.ok THEN extractParamsFrom(keys, caps, i + 1, Put(params, keys[i], d.val))
       ELSE [ok |-> FALSE, params |-> EmptyParams]

\* extractParams(keys, match): the params record, or ok = FALSE when decoding throws
extractParams(keys, caps) == extractParamsFrom(keys, caps, 1, EmptyParams)

\* the composite key `${method.toUpperCase()}:${path}`
RouteKey(method, path) == <<toUpperCase(method), path>>

\* routeKey.split(':')[0]
RouteMethod(routeKey) == routeKey[1]

IndexOfKey(rs, key) ==
  IF \E i \in 1..Len(rs) : rs[i].key = key
  THEN CHOOSE i \in 1..Len(rs) : rs[i].key = key
  ELSE 0

\* variant: setting an existing key moves it to the end
MapSet_moveToEnd(rs, entry) ==
  Append(SelectSeq(rs, LAMBDA r : r.key # entry.key), entry)

\* this.routes.set(routeKey, entry) on a Map: an existing key keeps its position
MapSet(rs, entry) ==
  LET i == IndexOfKey(rs, entry.key) IN
  IF i = 0 THEN Append(rs, entry) ELSE [rs EXCEPT ![i] = entry]

\* this.routes.delete(routeKey)
MapDelete(rs, key) ==
  LET i == IndexOfKey(rs, key) IN
  IF i = 0 THEN rs ELSE SubSeq(rs, 1, i - 1) \o SubSeq(rs, i + 1, Len(rs))

RouteEntry(method, path, handler, options) ==
  [key |-> RouteKey(method, path), pattern |-> path, keys |-> Keys(path),
   handler |-> handler, options |-> options, originalPath |-> path]

\* RouteMatcher.getRoutes: one item per entry, in the Map's iteration order
RouteMatcher_getRoutes(rs) ==
  [i \in 1..Len(rs) |-> [method |-> RouteMethod(rs[i].key), path |-> rs[i].originalPath,
                         options |-> rs[i].options]]

NullMatch == [kind |-> "null", handler |-> "none", params |-> EmptyParams, options |-> [delay |-> 0]]
ThrownMatch == [kind |-> "throw", handler |-> "none", params |-> EmptyParams, options |-> [delay |-> 0]]

RECURSIVE matchFrom(_, _, _, _)
matchFrom(rs, i, normalizedMethod, path) ==
  IF i > Len(rs) THEN NullMatch
  ELSE LET route == rs[i] IN
       IF RouteMethod(route.key) = normalizedMethod
       THEN LET m == Exec(route.pattern, path) IN
            IF m.ok
            THEN LET p == extractParams(route.keys, m.caps) IN
                 IF p.ok
                 THEN [kind |-> "hit", handler |-> route.handler,
                       params |-> p.params, options |-> route.options]
                 ELSE ThrownMatch
            ELSE matchFrom(rs, i + 1, normalizedMethod, path)
       ELSE matchFrom(rs, i + 1, normalizedMethod, path)

\* RouteMatcher.match(method, path) against the registry rs
RouteMatcher_match(rs, method, path) == matchFrom(rs, 1, toUpperCase(method), path)

----------------------------------------------------------------------------
(* Values of the orchestrator *)

EventTypes == {"ON_REQUEST", "ON_MOCK", "ON_NETWORK", "ON_RESPONSE"}

CallIds == {1, 2}

NoResp == [status |-> 0, src |-> "none", tx |-> <<>>]

\* what a handler function does when invoked
HandlerIds == {"hOk", "hThrow", "hReject"}

HandlerOutcome(h) ==
  CASE h = "hOk" -> [kind |-> "return", resp |-> [status |-> 200, src |-> h, tx |-> <<>>], err |-> ""]
    [] h = "hThrow" -> [kind |-> "throw", resp |-> NoResp, err |-> "handler threw"]
    [] h = "hReject" -> [kind |-> "reject", resp |-> NoResp, err |-> "handler rejected"]
    [] OTHER -> [kind |-> "return", resp |-> [status |-> 200, src |-> h, tx |-> <<>>], err |-> ""]

\* what a middleware function does, as the sequence of its operations
MwKinds == {"pass", "transform", "replace", "short", "throwSync", "rejectBefore",
            "throwAfter", "againCatch", "twiceUncaught"}

Script(kind) ==
  CASE kind = "pass" -> <<"next", "retResult">>              \* return next()
    [] kind = "transform" -> <<"next", "retTransform">>      \* r = await next(); return f(r)
    [] kind = "replace" -> <<"next", "retOwn">>              \* await next(); return another response
    [] kind = "short" -> <<"retOwn">>                        \* return its own response
    [] kind = "throwSync" -> <<"throw">>                     \* plain function that throws
    [] kind = "rejectBefore" -> <<"reject">>                 \* async function that throws at once
    [] kind = "throwAfter" -> <<"next", "reject">>           \* await next(); throw
    \* r = await next(); try { await next() } catch {}; try { await next() } catch {}; return r
    [] kind = "againCatch" -> <<"next", "nextCatch", "nextCatch", "retFirst">>
    [] kind = "twiceUncaught" -> <<"next", "next", "retResult">>
    \* await new Promise(resolve => setTimeout(resolve, 10)); return next()
    [] kind = "waitPass" -> <<"await", "next", "retResult">>

OwnResponse(pos) == [status |-> 200, src |-> "middleware", tx |-> <<pos>>]

Transform(pos, r) == [r EXCEPT !.tx = Append(@, pos)]

\* what an event handler does when invoked
ListenerIds == {"L_ok", "L_throw"}

ListenerThrows(h) == h = "L_throw"

\* outcomes of the real network function
NetResponses == {[status |-> 200, src |-> "network", tx |-> <<>>],
                 [status |-> 404, src |-> "network", tx |-> <<>>]}

NetErrors == {"NetworkError"}

UndefinedRequest ==
  [defined |-> FALSE, baseUrl |-> "", method |-> "", path |-> <<>>, params |-> EmptyParams]

NoInit == [given |-> FALSE, method |-> "GET"]

Init_(m) == [given |-> TRUE, method |-> m]

RelInput(path) == [valid |-> TRUE, origin |-> "", path |-> path]
AbsInput(path) == [valid |-> TRUE, origin |-> "https://api.example.com", path |-> path]
InvalidInput == [valid |-> FALSE, origin |-> "", path |-> <<<<"i","n","v","a","l","i","d">>>>]

----------------------------------------------------------------------------
(* RequestParser *)

\* RequestParser.parse rejects when new Request(requestUrl, init) throws
ParseRejects(input, init) == ~input.valid

\* RequestParser.parse(input, init)
RequestParser_parse(input, init) ==
  [defined |-> TRUE,
   baseUrl |-> IF input.origin = "" THEN "http://localhost" ELSE input.origin,
   method |-> toUpperCase(init.method),
   path |-> input.path,
   params |-> EmptyParams]

\* RequestParser.createWithParams(baseRequest, params)
RequestParser_createWithParams(baseRequest, params) == [baseRequest EXCEPT !.params = params]

----------------------------------------------------------------------------
(* EventEmitter *)

RECURSIVE DispatchFrom_uncaught(_, _, _, _, _)
\* variant: the wrapper calls the handler without try/catch, so the first handler that
\* throws ends the dispatch with its error
DispatchFrom_uncaught(ws, i, type, req, resp) ==
  IF i > Len(ws) THEN <<>>
  ELSE IF ListenerThrows(ws[i].h)
  THEN <<[h |-> ws[i].h, type |-> type, req |-> req, resp |-> resp, threw |-> TRUE,
          caught |-> FALSE]>>
  ELSE <<[h |-> ws[i].h, type |-> type, req |-> req, resp |-> resp, threw |-> FALSE,
          caught |-> FALSE]>>
       \o DispatchFrom_uncaught(ws, i + 1, type, req, resp)

RECURSIVE DispatchFrom(_, _, _, _, _)
\* dispatchEvent: every wrapper of the type in order; the wrapper of on() calls the
\* handler inside try/catch, so a throwing handler is logged and the next one runs
DispatchFrom(ws, i, type, req, resp) ==
  IF i > Len(ws) THEN <<>>
  ELSE <<[h |-> ws[i].h, type |-> type, req |-> req, resp |-> resp,
          threw |-> ListenerThrows(ws[i].h), caught |-> ListenerThrows(ws[i].h)]>>
       \o DispatchFrom(ws, i + 1, type, req, resp)

\* EventEmitter.emit(event, ...args): the handler invocations it makes
EventEmitter_emit(type, req, resp) == DispatchFrom(evTarget[type], 1, type, req, resp)

Ev(type, req, resp) == [type |-> type, req |-> req, resp |-> resp]

----------------------------------------------------------------------------
(* One intercepted call *)

IdleCall ==
  [pc |-> "idle",            \* idle, parse, pipeline, delay, handler, network, done
   input |-> InvalidInput, init |-> NoInit,
   req |-> UndefinedRequest,     \* mockRequest
   reqp |-> UndefinedRequest,    \* requestWithParams
   match |-> NullMatch,          \* matchResult
   index |-> 0,                  \* execute's index
   stack |-> <<>>,               \* the middleware invocations in progress, outermost first
   ctl |-> "none",               \* call: next() is being entered; run: the innermost middleware
                                 \* runs; ret / exc: a result / a rejection reaches the innermost
   ret |-> NoResp, retFrom |-> -1, exc |-> "",
   events |-> <<>>,              \* the events emitted for the call
   trace |-> <<>>,               \* middleware and terminal activity of the call
   netCalls |-> <<>>,            \* arguments of each invocation of the real network function
   netOutcomes |-> <<>>,         \* how each of them settled
   fwdReq |-> UndefinedRequest, fwdFrom |-> "none",
   seen |-> <<>>,                \* the request each middleware and the handler was invoked with
   chain |-> <<>>,               \* the middleware registered when the call was made
   ran |-> <<>>,                 \* the middleware invoked for the call, in order
   waited |-> 0,                 \* milliseconds the call has spent waiting on timers
   result |-> [state |-> "pending", resp |-> NoResp, err |-> ""]]

Resolved(r) == [state |-> "resolved", resp |-> r, err |-> ""]
Rejected(e) == [state |-> "rejected", resp |-> NoResp, err |-> e]

Tr(e, pos, val) == [e |-> e, pos |-> pos, val |-> val]

Frame(pos, kind) ==
  [pos |-> pos, kind |-> kind, ip |-> 1, nextCalled |-> FALSE, catching |-> FALSE,
   got |-> 0, first |-> NoResp, last |-> NoResp, errs |-> 0]

Top(k) == k.stack[Len(k.stack)]
Pop(k) == SubSeq(k.stack, 1, Len(k.stack) - 1)
SetTop(k, f) == [k.stack EXCEPT ![Len(k.stack)] = f]

\* variant: the URL derived by the parser is forwarded in place of the caller's input
ForwardArgs_parsed(k) ==
  [input |-> [valid |-> TRUE, origin |-> k.req.baseUrl, path |-> k.req.path], init |-> k.init]

\* the arguments forwardToOriginalFetch hands to this.originalFetch
ForwardArgs(k) == [input |-> k.input, init |-> k.init]

\* forwardToOriginalFetch, up to the await of the real network function
forwardToOriginalFetch(k, mockRequest, from) ==
  [k |-> [k EXCEPT !.pc = "network", !.fwdReq = mockRequest, !.fwdFrom = from,
                   !.events = Append(@, Ev("ON_NETWORK", mockRequest, NoResp)),
                   !.netCalls = Append(@, ForwardArgs(k))],
   h |-> EventEmitter_emit("ON_NETWORK", mockRequest, NoResp)]

\* variant: the catch block lets the error escape to the caller
wrappedFetch_rethrow(k, error) ==
  [k |-> [k EXCEPT !.pc = "done", !.result = Rejected(error)], h |-> <<>>]

\* the catch block of wrappedFetch
wrappedFetch_catch(k, error) == forwardToOriginalFetch(k, k.req, "catch")

\* variant: `return await this.forwardToOriginalFetch(...)`
ForwardAwaitedInTry_yes == TRUE

\* `return this.forwardToOriginalFetch(...)` inside the try block is not awaited:
\* a rejection of the forward does not reach the catch block
ForwardAwaitedInTry == FALSE

\* the error forwardToOriginalFetch rethrows
ForwardRethrow(error) == error

\* the names of the headers of a Response: ResponseBuilder.json and the substitute for a
\* failing handler set Content-Type; wrappedFetch returns the Response as it got it
ResponseHeaders(r) ==
  IF r.src \in {"none", "network"} THEN {} ELSE {"Content-Type"}

\* variant: the substitute response is built with the default status
HandlerErrorResponse_ok(message) == [status |-> 200, src |-> "Handler error", tx |-> <<>>]

\* the Response wrappedFetch builds for a failing handler
HandlerErrorResponse(message) == [status |-> 500, src |-> "Handler error", tx |-> <<>>]

\* variant: `return matchResult.handler(...)` without await lets a rejection through
HandlerCaught_syncOnly(how) == how = "throw"

\* try { ... return await matchResult.handler(...) } catch: which failures it catches
HandlerCaught(how) == how \in {"throw", "reject"}

\* the terminal operation once the handler has been invoked with outcome o
finalHandler_settle(o) ==
  IF o.kind = "return" THEN [ctl |-> "ret", ret |-> o.resp, exc |-> ""]
  ELSE IF HandlerCaught(o.kind)
       THEN [ctl |-> "ret", ret |-> HandlerErrorResponse(o.err), exc |-> ""]
       ELSE [ctl |-> "exc", ret |-> NoResp, exc |-> o.err]

\* variant: `return middleware(request, safeNext)` without await lets a rejection through
MiddlewareCaught_syncOnly(how) == how = "throw"

\* try { return await middleware(request, safeNext) } catch: which failures it catches
MiddlewareCaught(how) == how \in {"throw", "reject"}

\* the catch block of next: log, then `return next()`
next_catch(k, error) ==
  [k EXCEPT !.stack = SetTop(k, [Top(k) EXCEPT !.catching = TRUE]), !.ctl = "call",
            !.trace = Append(@, Tr(IF Top(k).nextCalled THEN "failedAfter" ELSE "failedBefore",
                                   Top(k).pos, NoResp))]

\* the innermost middleware fails: thrown synchronously or as a rejected promise
MwFails(k, how, error) ==
  IF MiddlewareCaught(how) THEN next_catch(k, error)
  ELSE [k EXCEPT !.stack = Pop(k), !.ctl = "exc", !.exc = error]

\* the innermost middleware returns r
MwReturns(k, r) ==
  [k EXCEPT !.stack = Pop(k), !.ctl = "ret", !.ret = r, !.retFrom = Top(k).pos,
            !.trace = Append(@, Tr("return", Top(k).pos, r))]

\* safeNext called when nextCalled is already set
AlreadyCalled == "next() has already been called"

NoOp == [op |-> "none", event |-> "", handler |-> "", was |-> FALSE, same |-> TRUE,
         req |-> UndefinedRequest, resp |-> NoResp, invoked |-> <<>>, count |-> 0]

NotAsked == [asked |-> FALSE, method |-> "", path |-> <<>>, result |-> NullMatch]

----------------------------------------------------------------------------
(* Actions: the registries *)

RouteMatcher_register(method, path, handler, options) ==
  /\ IndexOfKey(routes, RouteKey(method, path)) # 0 \/ Len(routes) < MaxRoutes
  /\ routes' = MapSet(routes, RouteEntry(method, path, handler, options))
  /\ lastMatch' = NotAsked
  /\ UNCHANGED <<middlewares, evTarget, handlerMap, calls, heard, returned, registered, removed, lastOp, life, state>>

RouteMatcher_unregister(method, path) ==
  /\ routes' = MapDelete(routes, RouteKey(method, path))
  /\ returned' = (IndexOfKey(routes, RouteKey(method, path)) # 0)
  /\ lastMatch' = NotAsked
  /\ UNCHANGED <<middlewares, evTarget, handlerMap, calls, heard, registered, removed, lastOp, lastApi, life, state>>

RouteMatcher_clear ==
  /\ routes # <<>>
  /\ routes' = <<>>
  /\ lastMatch' = NotAsked
  /\ UNCHANGED <<middlewares, evTarget, handlerMap, calls, heard, returned, registered, removed, lastOp, lastApi, life, state>>

\* a direct call of RouteMatcher.match
MatchCall(method, path) ==
  /\ lastMatch' = [asked |-> TRUE, method |-> method, path |-> path,
                   result |-> RouteMatcher_match(routes, method, path)]
  /\ UNCHANGED <<routes, middlewares, evTarget, handlerMap, calls, heard, returned, registered, removed, lastOp, lastApi, life, state>>

MiddlewarePipeline_use(middleware) ==
  /\ Len(middlewares) < MaxMw
  /\ middlewares' = Append(middlewares, middleware)
  /\ UNCHANGED <<routes, evTarget, handlerMap, calls, heard, lastMatch, returned, registered, removed, lastOp, lastRoute, life, state>>

\* Array.prototype.indexOf: the first position of x in q, 0 when absent
IndexOf(q, x) ==
  IF \E i \in 1..Len(q) : q[i] = x THEN CHOOSE i \in 1..Len(q) : q[i] = x /\ \A j \in 1..(i - 1) : q[j] # x
  ELSE 0

\* Array.prototype.splice(index, 1)
Splice(q, i) == SubSeq(q, 1, i - 1) \o SubSeq(q, i + 1, Len(q))

\* MiddlewarePipeline.remove
MiddlewarePipeline_remove(middleware) ==
  /\ middlewares' = IF IndexOf(middlewares, middleware) # 0
                    THEN Splice(middlewares, IndexOf(middlewares, middleware))
                    ELSE middlewares
  /\ returned' = (IndexOf(middlewares, middleware) # 0)
  /\ UNCHANGED <<routes, evTarget, handlerMap, calls, heard, lastMatch, registered, removed, lastOp, lastRoute, lastApi, life, state>>

RECURSIVE SumLen(_, _)
SumLen(f, S) ==
  IF S = {} THEN 0
  ELSE LET x == CHOOSE y \in S : TRUE IN Len(f[x]) + SumLen(f, S \ {x})

NextSerial(ws, h) ==
  LET used == {ws[i].n : i \in {j \in 1..Len(ws) : ws[j].h = h}} IN
  IF used = {} THEN 1 ELSE 1 + (CHOOSE n \in used : \A m \in used : m <= n)

IndexOfHandler(hm, h) ==
  IF \E i \in 1..Len(hm) : hm[i].h = h
  THEN CHOOSE i \in 1..Len(hm) : hm[i].h = h
  ELSE 0

\* the subscriptions a caller holds after on(event, handler) / after a successful off
Subscribe(subs, handler) ==
  IF \E i \in 1..Len(subs) : subs[i] = handler THEN subs ELSE Append(subs, handler)

Unsubscribe(subs, handler) == SelectSeq(subs, LAMBDA x : x # handler)

EventEmitter_on(event, handler) ==
  /\ LET eventListener == [h |-> handler, n |-> NextSerial(evTarget[event], handler)]
         i == IndexOfHandler(handlerMap[event], handler)
     IN /\ handlerMap' = [handlerMap EXCEPT ![event] =
                            IF i = 0 THEN Append(@, eventListener)
                            ELSE [@ EXCEPT ![i] = eventListener]]
        /\ evTarget' = [evTarget EXCEPT ![event] = Append(@, eventListener)]
  /\ registered' = [registered EXCEPT ![event] = Subscribe(@, handler)]
  /\ removed' = [removed EXCEPT ![event] = @ \ {handler}]
  /\ UNCHANGED <<routes, middlewares, calls, heard, lastMatch, returned, lastRoute, life, state>>

\* removeEventListener(event, eventListener): that very listener is detached
removeEventListener(ws, eventListener) == SelectSeq(ws, LAMBDA w : w # eventListener)

\* variant: the handler's entry is left in handlerMap
EventEmitter_off_keepsMapping(event, handler) ==
  LET eventHandlers == handlerMap[event]
      i == IndexOfHandler(eventHandlers, handler)
  IN
  IF eventHandlers = <<>> \/ i = 0
  THEN /\ returned' = FALSE
       /\ UNCHANGED <<routes, middlewares, evTarget, handlerMap, calls, heard, lastMatch,
                      registered, removed, lastRoute, lastApi, life, state>>
  ELSE /\ evTarget' = [evTarget EXCEPT ![event] = removeEventListener(@, eventHandlers[i])]
       /\ returned' = TRUE
       /\ registered' = [registered EXCEPT ![event] = Unsubscribe(@, handler)]
       /\ removed' = [removed EXCEPT ![event] = @ \cup {handler}]
       /\ UNCHANGED <<routes, middlewares, handlerMap, calls, heard, lastMatch, lastRoute, lastApi, life, state>>

EventEmitter_off(event, handler) ==
  LET eventHandlers == handlerMap[event]
      i == IndexOfHandler(eventHandlers, handler)
  IN
  IF eventHandlers = <<>> \/ i = 0
  THEN /\ returned' = FALSE
       /\ UNCHANGED <<routes, middlewares, evTarget, handlerMap, calls, heard, lastMatch,
                      registered, removed, lastRoute, lastApi, life, state>>
  ELSE /\ evTarget' = [evTarget EXCEPT ![event] = removeEventListener(@, eventHandlers[i])]
       /\ handlerMap' = [handlerMap EXCEPT ![event] =
                           SubSeq(@, 1, i - 1) \o SubSeq(@, i + 1, Len(@))]
       /\ returned' = TRUE
       /\ registered' = [registered EXCEPT ![event] = Unsubscribe(@, handler)]
       /\ removed' = [removed EXCEPT ![event] = @ \cup {handler}]
       /\ UNCHANGED <<routes, middlewares, calls, heard, lastMatch, lastRoute, lastApi, life, state>>

\* EventEmitter.listenerCount(event)
listenerCount(event) == Len(handlerMap[event])

Range(q) == {q[i] : i \in 1..Len(q)}

IsPrefix(p, q) == Len(p) <= Len(q) /\ SubSeq(q, 1, Len(p)) = p

----------------------------------------------------------------------------
(* FetchWrapper and ApiMock: installing and uninstalling the interception *)

\* a function value, by identity: the real network function, a function a caller assigned, or
\* the n-th `this.wrappedFetch.bind(this)` of FetchWrapper w
NativeFetch == [w |-> 0, n |-> 0]

BoundFetch(w, n) == [w |-> w, n |-> n]

\* new FetchWrapper(...): the constructor captures the ambient entry point
FetchWrapper_new(fetch) == [originalFetch |-> fetch, isSetup |-> FALSE, binds |-> 0]

Unchanged(ws, g) == [ws |-> ws, g |-> g]

\* variant: setup without the isSetup guard
FetchWrapper_setup_unguarded(ws, g, w) ==
  [ws |-> [ws EXCEPT ![w].isSetup = TRUE, ![w].binds = @ + 1],
   g |-> BoundFetch(w, ws[w].binds + 1)]

FetchWrapper_setup(ws, g, w) ==
  IF ws[w].isSetup THEN Unchanged(ws, g)
  ELSE [ws |-> [ws EXCEPT ![w].isSetup = TRUE, ![w].binds = @ + 1],
        g |-> BoundFetch(w, ws[w].binds + 1)]

\* variant: teardown that only clears the flag
FetchWrapper_teardown_flagOnly(ws, g, w) ==
  IF ~ws[w].isSetup THEN Unchanged(ws, g)
  ELSE [ws |-> [ws EXCEPT ![w].isSetup = FALSE], g |-> g]

FetchWrapper_teardown(ws, g, w) ==
  IF ~ws[w].isSetup THEN Unchanged(ws, g)
  ELSE [ws |-> [ws EXCEPT ![w].isSetup = FALSE], g |-> ws[w].originalFetch]

FetchWrapper_isActive(ws, w) == ws[w].isSetup

\* variant: setup installs the new FetchWrapper and leaves isInitialized as it was
ApiMock_setup_unflagged(api, ws, g) ==
  IF api.isInitialized THEN [api |-> api, ws |-> ws, g |-> g]
  ELSE LET made == Append(ws, FetchWrapper_new(g))
           r == FetchWrapper_setup(made, g, Len(made))
       IN [api |-> [api EXCEPT !.fetchWrapper = Len(made)], ws |-> r.ws, g |-> r.g]

\* ApiMock.setup: a new FetchWrapper is constructed and installed, unless initialized
ApiMock_setup(api, ws, g) ==
  IF api.isInitialized THEN [api |-> api, ws |-> ws, g |-> g]
  ELSE LET made == Append(ws, FetchWrapper_new(g))
           r == FetchWrapper_setup(made, g, Len(made))
       IN [api |-> [isInitialized |-> TRUE, fetchWrapper |-> Len(made)], ws |-> r.ws, g |-> r.g]

ApiMock_isActive == apiMock.isInitialized /\ FetchWrapper_isActive(wrappers, apiMock.fetchWrapper)

\* EventEmitter.removeAllListeners(): the listeners recorded in handlerMap are detached
RECURSIVE removeAll(_, _, _)
removeAll(ws, eventHandlers, i) ==
  IF i > Len(eventHandlers) THEN ws
  ELSE removeAll(removeEventListener(ws, eventHandlers[i]), eventHandlers, i + 1)

EventEmitter_removeAllListeners(target, hm) ==
  [target |-> [e \in DOMAIN target |-> removeAll(target[e], hm[e], 1)],
   hm |-> [e \in DOMAIN hm |-> <<>>]]

\* MiddlewarePipeline.clear
MiddlewarePipeline_clear == <<>>

\* StateStoreManager.clearAll
StateStoreManager_clearAll == <<>>

NoApi == [op |-> "none", who |-> "", w |-> 0, was |-> FALSE, g |-> NativeFetch,
          orig |-> NativeFetch, threw |-> FALSE,
          pOp |-> "none", pWho |-> "", pW |-> 0, pWas |-> FALSE, pG |-> NativeFetch]

\* the record of a lifecycle call on wrapper w, made in the current state
ApiCall(op, who, w, was) ==
  [op |-> op, who |-> who, w |-> w, was |-> was, g |-> globalFetch,
   orig |-> wrappers[w].originalFetch, threw |-> FALSE,
   pOp |-> lastApi.op, pWho |-> lastApi.who, pW |-> lastApi.w, pWas |-> lastApi.was,
   pG |-> lastApi.g]

\* ApiMock.cleanup
ApiMock_cleanup ==
  /\ LET r == IF apiMock.isInitialized
              THEN FetchWrapper_teardown(wrappers, globalFetch, apiMock.fetchWrapper)
              ELSE Unchanged(wrappers, globalFetch)
     IN /\ wrappers' = r.ws
        /\ globalFetch' = r.g
  /\ apiMock' = [apiMock EXCEPT !.isInitialized = FALSE]
  /\ routes' = <<>>
  /\ middlewares' = MiddlewarePipeline_clear
  /\ LET r == EventEmitter_removeAllListeners(evTarget, handlerMap) IN
       /\ evTarget' = r.target
       /\ handlerMap' = r.hm
  /\ stores' = StateStoreManager_clearAll
  /\ registered' = [e \in EventTypes |-> <<>>]
  /\ removed' = [e \in EventTypes |-> removed[e] \cup Range(registered[e])]
  /\ lastMatch' = NotAsked
  /\ UNCHANGED <<calls, heard, returned, containers, heap, issued, updaters>>

----------------------------------------------------------------------------
(* StateStore and StateStoreManager *)

\* An object is a cell of the heap: { count, items } with items a nested object (0: none);
\* `by` tells who created it. A reference is the object itself or a readonly Proxy of it.
Absent == -1   \* a property that was deleted

Obj(count, child, by) == [count |-> count, child |-> child, by |-> by]

Raw(o) == [proxy |-> FALSE, target |-> o]

createProxy(o) == [proxy |-> TRUE, target |-> o]

ReadonlyError == "Cannot modify readonly state. Use set() method to update state."

\* new StateStore(initialData)
StateStore_new(initialData) == [data |-> initialData]

\* StateStore.get
StateStore_get(cs, s) == createProxy(cs[s].data)

\* variant: the get trap hands out the nested object itself
ProxyGet_shallow(hp, ref, prop) ==
  IF prop = "items" /\ hp[ref.target].child # 0
  THEN Raw(hp[ref.target].child)
  ELSE hp[ref.target].count

\* reading ref[prop]: through a Proxy, the get trap wraps a nested object in a Proxy
ProxyGet(hp, ref, prop) ==
  IF prop = "items" /\ hp[ref.target].child # 0
  THEN IF ref.proxy THEN createProxy(hp[ref.target].child) ELSE Raw(hp[ref.target].child)
  ELSE hp[ref.target].count

\* ref.count = v: through a Proxy, the set trap throws
Assign(hp, ref, v) ==
  IF ref.proxy
  THEN [heap |-> hp, threw |-> TRUE, message |-> ReadonlyError]
  ELSE [heap |-> [hp EXCEPT ![ref.target].count = v], threw |-> FALSE, message |-> ""]

\* delete ref.count: through a Proxy, the deleteProperty trap throws
Delete(hp, ref) ==
  IF ref.proxy
  THEN [heap |-> hp, threw |-> TRUE, message |-> ReadonlyError]
  ELSE [heap |-> [hp EXCEPT ![ref.target].count = Absent], threw |-> FALSE, message |-> ""]

NotANumber == -2   \* NaN: undefined + 1

\* v + 1 for the value of a property that may be missing
Plus1(v) == IF v \in {Absent, NotANumber} THEN NotANumber ELSE v + 1

\* the updater  current => ({ ...current, count: current.count + 1 })
Increment(hp, current) == Obj(Plus1(hp[current].count), hp[current].child, "updater")

\* the Promise an async function returns when called: an object without own properties
PendingPromise == Obj(Absent, 0, "promise")

\* dataOrUpdater(this.data): an async updater returns its promise at once and computes
\* its replacement value later
Invoke(hp, updater, current) ==
  IF updater.async THEN PendingPromise ELSE Increment(hp, current)

\* variant: `this.data = await dataOrUpdater(this.data)`: nothing is stored while the
\* updater is suspended
StateStore_set_awaited(cs, hp, s, dataOrUpdater) ==
  IF dataOrUpdater.fn
  THEN LET made == Append(hp, Invoke(hp, dataOrUpdater, cs[s].data))
       IN [cs |-> IF dataOrUpdater.async THEN cs ELSE [cs EXCEPT ![s].data = Len(made)],
           hp |-> made]
  ELSE [cs |-> [cs EXCEPT ![s].data = dataOrUpdater.obj], hp |-> hp]

\* variant: the updater's result is dropped
StateStore_set_discard(cs, hp, s, dataOrUpdater) == [cs |-> cs, hp |-> hp]

\* StateStore.set(dataOrUpdater): a function is applied to this.data, a value is stored
StateStore_set(cs, hp, s, dataOrUpdater) ==
  IF dataOrUpdater.fn
  THEN LET made == Append(hp, Invoke(hp, dataOrUpdater, cs[s].data))
       IN [cs |-> [cs EXCEPT ![s].data = Len(made)], hp |-> made]
  ELSE [cs |-> [cs EXCEPT ![s].data = dataOrUpdater.obj], hp |-> hp]

Updater == [fn |-> TRUE, async |-> FALSE, obj |-> 0]

\* async current => { await something; return { ...current, count: current.count + 1 } }
AsyncUpdater == [fn |-> TRUE, async |-> TRUE, obj |-> 0]

Data(o) == [fn |-> FALSE, async |-> FALSE, obj |-> o]

IndexOfStore(ss, key) ==
  IF \E i \in 1..Len(ss) : ss[i].key = key
  THEN CHOOSE i \in 1..Len(ss) : ss[i].key = key
  ELSE 0

StateStoreManager_hasStore(ss, key) == IndexOfStore(ss, key) # 0

NoStore == 0   \* undefined: no store under the key

StateStoreManager_getStore(ss, key) ==
  IF IndexOfStore(ss, key) = 0 THEN NoStore ELSE ss[IndexOfStore(ss, key)].store

\* variant: an existing key gets a new container
StateStoreManager_createStore_replace(ss, cs, key, initialData) ==
  LET made == Append(cs, StateStore_new(initialData))
      i == IndexOfStore(ss, key)
      entry == [key |-> key, store |-> Len(made)]
  IN [ss |-> IF i = 0 THEN Append(ss, entry) ELSE [ss EXCEPT ![i] = entry],
      cs |-> made, store |-> Len(made)]

StateStoreManager_createStore(ss, cs, key, initialData) ==
  IF StateStoreManager_hasStore(ss, key)
  THEN [ss |-> ss, cs |-> cs, store |-> StateStoreManager_getStore(ss, key)]
  ELSE LET made == Append(cs, StateStore_new(initialData))
       IN [ss |-> Append(ss, [key |-> key, store |-> Len(made)]),
           cs |-> made, store |-> Len(made)]

\* variant: the entry is kept
StateStoreManager_deleteStore_kept(ss, key) == ss

StateStoreManager_deleteStore(ss, key) ==
  LET i == IndexOfStore(ss, key) IN
  IF i = 0 THEN ss ELSE SubSeq(ss, 1, i - 1) \o SubSeq(ss, i + 1, Len(ss))

\* what a reader of the container sees: the value and the value of the nested object
Value(hp, o) ==
  [count |-> hp[o].count,
   items |-> IF hp[o].child = 0 THEN Absent ELSE hp[hp[o].child].count]

NoValue == [count |-> Absent, items |-> Absent]

Observed(cs, hp, s) == Value(hp, cs[s].data)

NoStoreOp == [op |-> "none", key |-> "", store |-> NoStore, had |-> NoStore, arg |-> 0,
              value |-> NoValue, threw |-> FALSE, message |-> ""]

NoRoute == [op |-> "none", key |-> <<>>, handler |-> "", options |-> [delay |-> 0],
            pos |-> 0, len |-> 0]

StoreCall(op, key, s, arg) ==
  [op |-> op, key |-> key, store |-> s, had |-> StateStoreManager_getStore(stores, key),
   arg |-> arg,
   value |-> IF s \in 1..Len(containers) THEN Observed(containers, heap, s) ELSE NoValue,
   threw |-> FALSE, message |-> ""]

\* the handler "hInc" increments the count of the store "cart":
\*   apiMock.getStore("cart").set(current => ({ ...current, count: current.count + 1 }))
HandlerEffect(h) ==
  LET s == StateStoreManager_getStore(stores, "cart") IN
  IF h = "hInc" /\ s # NoStore
  THEN LET r == StateStore_set(containers, heap, s, Updater) IN
         /\ containers' = r.cs
         /\ heap' = r.hp
         /\ issued' = [issued EXCEPT ![s].n = @ + 1]
         /\ lastStore' = StoreCall("set", "", s, 0)
         /\ UNCHANGED <<stores, updaters>>
  ELSE UNCHANGED state

----------------------------------------------------------------------------
(* Actions: an intercepted call *)

\* the caller invokes the installed fetch: wrappedFetch starts and awaits the parse
FetchCall(c, input, init) ==
  /\ calls[c].pc = "idle"
  /\ calls' = [calls EXCEPT ![c] = [@ EXCEPT !.pc = "parse", !.input = input, !.init = init,
                                             !.chain = middlewares]]
  /\ UNCHANGED <<routes, middlewares, evTarget, handlerMap, heard, lastMatch, returned, registered, removed, lastOp, lastRoute, lastApi, life, state>>

\* variant: the route is matched first and ON_REQUEST is emitted once the match returned
wrappedFetch_parsed_matchFirst(k) ==
  IF ParseRejects(k.input, k.init)
  THEN wrappedFetch_catch(k, "TypeError: Invalid URL")
  ELSE
    LET mockRequest == RequestParser_parse(k.input, k.init)
        k0 == [k EXCEPT !.req = mockRequest]
        k1 == [k0 EXCEPT !.events = Append(@, Ev("ON_REQUEST", mockRequest, NoResp))]
        h1 == EventEmitter_emit("ON_REQUEST", mockRequest, NoResp)
        matchResult == RouteMatcher_match(routes, mockRequest.method, mockRequest.path)
    IN
    IF matchResult.kind = "throw"
    THEN wrappedFetch_catch(k0, "URIError: URI malformed")
    ELSE IF matchResult.kind = "hit"
    THEN LET requestWithParams ==
               RequestParser_createWithParams(mockRequest, matchResult.params)
         IN [k |-> [k1 EXCEPT !.reqp = requestWithParams, !.match = matchResult,
                              !.events = Append(@, Ev("ON_MOCK", requestWithParams, NoResp)),
                              !.pc = "pipeline", !.ctl = "call", !.index = 0],
             h |-> h1 \o EventEmitter_emit("ON_MOCK", requestWithParams, NoResp)]
    ELSE LET f == forwardToOriginalFetch(k1, mockRequest, "try") IN
         [k |-> f.k, h |-> h1 \o f.h]

\* wrappedFetch from the settlement of RequestParser.parse to its next await
wrappedFetch_parsed(k) ==
  IF ParseRejects(k.input, k.init)
  THEN wrappedFetch_catch(k, "TypeError: Invalid URL")
  ELSE
    LET mockRequest == RequestParser_parse(k.input, k.init)
        k1 == [k EXCEPT !.req = mockRequest,
                        !.events = Append(@, Ev("ON_REQUEST", mockRequest, NoResp))]
        h1 == EventEmitter_emit("ON_REQUEST", mockRequest, NoResp)
        matchResult == RouteMatcher_match(routes, mockRequest.method, mockRequest.path)
    IN
    IF matchResult.kind = "throw"
    THEN LET f == wrappedFetch_catch(k1, "URIError: URI malformed") IN
         [k |-> f.k, h |-> h1 \o f.h]
    ELSE IF matchResult.kind = "hit"
    THEN LET requestWithParams ==
               RequestParser_createWithParams(mockRequest, matchResult.params)
         IN [k |-> [k1 EXCEPT !.reqp = requestWithParams, !.match = matchResult,
                              !.events = Append(@, Ev("ON_MOCK", requestWithParams, NoResp)),
                              !.pc = "pipeline", !.ctl = "call", !.index = 0],
             h |-> h1 \o EventEmitter_emit("ON_MOCK", requestWithParams, NoResp)]
    ELSE LET f == forwardToOriginalFetch(k1, mockRequest, "try") IN
         [k |-> f.k, h |-> h1 \o f.h]

ParseSettle(c) ==
  /\ calls[c].pc = "parse"
  /\ LET r == wrappedFetch_parsed(calls[c]) IN
       /\ calls' = [calls EXCEPT ![c] = r.k]
       /\ heard' = heard \o r.h
  /\ UNCHANGED <<routes, middlewares, evTarget, handlerMap, lastMatch, returned, registered, removed, lastOp, lastRoute, lastApi, life, state>>

\* variant: the terminal operation resolves the route again when it runs
finalHandler_matchResult_fresh(k) ==
  LET m == RouteMatcher_match(routes, k.req.method, k.req.path) IN
  IF m.kind = "hit" THEN m ELSE k.match

\* the matchResult the terminal operation closes over
finalHandler_matchResult(k) == k.match

\* variant: the middleware are taken from the end of the list
MiddlewarePipeline_next_reversed(k) ==
  IF k.index >= Len(middlewares)
  THEN [k EXCEPT !.pc = IF finalHandler_matchResult(k).options.delay > 0
                        THEN "delay" ELSE "handler",
                 !.ctl = "none",
                 !.trace = Append(@, Tr("terminal", 0, NoResp))]
  ELSE LET pos == Len(middlewares) - k.index IN
       [k EXCEPT !.index = @ + 1,
                 !.stack = Append(@, Frame(pos, middlewares[pos])),
                 !.ctl = "run",
                 !.ran = Append(@, middlewares[pos]),
                 !.seen = Append(@, [who |-> "middleware", pos |-> pos, req |-> k.reqp]),
                 !.trace = Append(@, Tr("enter", pos, NoResp))]

\* the body of next(): the terminal operation once the middleware are used up,
\* otherwise the middleware at index, which is then advanced
MiddlewarePipeline_next(k) ==
  IF k.index >= Len(middlewares)
  THEN [k EXCEPT !.pc = IF finalHandler_matchResult(k).options.delay > 0
                        THEN "delay" ELSE "handler",
                 !.ctl = "none",
                 !.trace = Append(@, Tr("terminal", 0, NoResp))]
  ELSE [k EXCEPT !.index = @ + 1,
                 !.stack = Append(@, Frame(k.index + 1, middlewares[k.index + 1])),
                 !.ctl = "run",
                 !.ran = Append(@, middlewares[k.index + 1]),
                 !.seen = Append(@, [who |-> "middleware", pos |-> k.index + 1, req |-> k.reqp]),
                 !.trace = Append(@, Tr("enter", k.index + 1, NoResp))]

MwCall(c) ==
  /\ calls[c].pc = "pipeline" /\ calls[c].ctl = "call"
  /\ calls' = [calls EXCEPT ![c] = MiddlewarePipeline_next(calls[c])]
  /\ UNCHANGED <<routes, middlewares, evTarget, handlerMap, heard, lastMatch, returned, registered, removed, lastOp, lastRoute, lastApi, life, state>>

\* variant: safeNext without the nextCalled guard
safeNext_unguarded(k) ==
  [k EXCEPT !.stack = SetTop(k, [Top(k) EXCEPT !.nextCalled = TRUE]), !.ctl = "call"]

\* variant: a repeated call is answered with a promise that never settles
safeNext_silent(k) ==
  LET f == Top(k) IN
  IF f.nextCalled
  THEN [k EXCEPT !.ctl = "never"]
  ELSE [k EXCEPT !.stack = SetTop(k, [f EXCEPT !.nextCalled = TRUE]), !.ctl = "call"]

\* safeNext(): throws when already called, otherwise sets the flag and calls next()
safeNext(k) ==
  LET f == Top(k) op == Script(f.kind)[f.ip] IN
  IF f.nextCalled
  THEN IF op = "nextCatch"
       THEN [k EXCEPT !.stack = SetTop(k, [f EXCEPT !.errs = @ + 1, !.ip = @ + 1]),
                      !.trace = Append(@, Tr("refused", f.pos, NoResp))]
       ELSE MwFails([k EXCEPT !.trace = Append(@, Tr("refused", f.pos, NoResp))], "reject", AlreadyCalled)
  ELSE [k EXCEPT !.stack = SetTop(k, [f EXCEPT !.nextCalled = TRUE]), !.ctl = "call"]

\* the innermost middleware performs its next operation
MiddlewareStep(k) ==
  LET f == Top(k) op == Script(f.kind)[f.ip] IN
  CASE op \in {"next", "nextCatch"} -> safeNext(k)
    [] op = "throw" -> MwFails(k, "throw", "Middleware error")
    [] op = "reject" -> MwFails(k, "reject", "Middleware error")
    [] op = "retOwn" -> MwReturns(k, OwnResponse(f.pos))
    [] op = "retResult" -> MwReturns(k, f.last)
    [] op = "retFirst" -> MwReturns(k, f.first)
    [] op = "retTransform" -> MwReturns(k, Transform(f.pos, f.last))
    [] op = "await" -> [k EXCEPT !.ctl = "wait"]

MwRun(c) ==
  /\ calls[c].pc = "pipeline" /\ calls[c].ctl = "run"
  /\ calls' = [calls EXCEPT ![c] = MiddlewareStep(calls[c])]
  /\ UNCHANGED <<routes, middlewares, evTarget, handlerMap, heard, lastMatch, returned, registered, removed, lastOp, lastRoute, lastApi, life, state>>

\* the timer a middleware awaits fires: the middleware goes on
MwTimer(c) ==
  /\ calls[c].pc = "pipeline" /\ calls[c].ctl = "wait"
  /\ calls' = [calls EXCEPT ![c] =
                [@ EXCEPT !.stack = SetTop(calls[c], [Top(calls[c]) EXCEPT !.ip = @ + 1]),
                          !.ctl = "run"]]
  /\ UNCHANGED <<routes, middlewares, evTarget, handlerMap, heard, lastMatch, returned, registered, removed, lastOp, lastRoute, lastApi, life, state>>

\* a result or a rejection of next() reaches the middleware invocation that awaits it
MiddlewareResume(k) ==
  LET f == Top(k) op == Script(f.kind)[f.ip] IN
  IF f.catching
  THEN \* `return next()` of the catch block: the invocation settles as next() did
       [k EXCEPT !.stack = Pop(k),
                 !.trace = IF k.ctl = "ret" THEN Append(@, Tr("recovered", f.pos, k.ret)) ELSE @]
  ELSE IF k.ctl = "ret"
  THEN [k EXCEPT !.stack = SetTop(k, [f EXCEPT !.got = @ + 1, !.last = k.ret,
                                               !.first = IF f.got = 0 THEN k.ret ELSE @,
                                               !.ip = @ + 1]),
                 !.ctl = "run",
                 !.trace = Append(@, Tr("resume", f.pos, k.ret))]
  ELSE IF op = "nextCatch"
  THEN [k EXCEPT !.stack = SetTop(k, [f EXCEPT !.errs = @ + 1, !.ip = @ + 1]), !.ctl = "run"]
  ELSE MwFails(k, "reject", k.exc)

MwResume(c) ==
  /\ calls[c].pc = "pipeline" /\ calls[c].ctl \in {"ret", "exc"}
  /\ calls[c].stack # <<>>
  /\ calls' = [calls EXCEPT ![c] = MiddlewareResume(calls[c])]
  /\ UNCHANGED <<routes, middlewares, evTarget, handlerMap, heard, lastMatch, returned, registered, removed, lastOp, lastRoute, lastApi, life, state>>

\* variant: the timer is set without the delay
delay_immediate(milliseconds) == 0

\* this.delay(ms): the time after which setTimeout(resolve, ms) resolves the promise, at least
delay(milliseconds) == milliseconds

\* `await this.delay(matchResult.options.delay)` resolves
DelayDone(c) ==
  /\ calls[c].pc = "delay"
  /\ calls' = [calls EXCEPT ![c] = [@ EXCEPT !.pc = "handler",
                                             !.waited = @ + delay(finalHandler_matchResult(calls[c]).options.delay),
                                             !.trace = Append(@, Tr("delayed", 0, NoResp))]]
  /\ UNCHANGED <<routes, middlewares, evTarget, handlerMap, heard, lastMatch, returned, registered, removed, lastOp, lastRoute, lastApi, life, state>>

\* the terminal operation invokes the handler and settles
HandlerRun(c) ==
  /\ calls[c].pc = "handler"
  /\ LET s == finalHandler_settle(HandlerOutcome(finalHandler_matchResult(calls[c]).handler)) IN
     calls' = [calls EXCEPT ![c] = [@ EXCEPT !.pc = "pipeline", !.ctl = s.ctl, !.ret = s.ret,
                                             !.retFrom = 0, !.exc = s.exc,
                                             !.seen = Append(@, [who |-> "handler", pos |-> 0,
                                                                 req |-> calls[c].reqp]),
                                             !.trace = Append(@, Tr("handler", 0, s.ret))]]
  /\ HandlerEffect(finalHandler_matchResult(calls[c]).handler)
  /\ UNCHANGED <<routes, middlewares, evTarget, handlerMap, heard, lastMatch, returned, registered, removed, lastOp, lastRoute, lastApi, life>>

\* wrappedFetch after `await this.middlewarePipeline.execute(...)`
wrappedFetch_executed(k) ==
  IF k.ctl = "ret"
  THEN [k |-> [k EXCEPT !.pc = "done", !.ctl = "none",
                        !.events = Append(@, Ev("ON_RESPONSE", k.reqp, k.ret)),
                        !.result = Resolved(k.ret)],
        h |-> EventEmitter_emit("ON_RESPONSE", k.reqp, k.ret)]
  ELSE wrappedFetch_catch([k EXCEPT !.ctl = "none"], k.exc)

ExecuteSettle(c) ==
  /\ calls[c].pc = "pipeline" /\ calls[c].ctl \in {"ret", "exc"}
  /\ calls[c].stack = <<>>
  /\ LET r == wrappedFetch_executed(calls[c]) IN
       /\ calls' = [calls EXCEPT ![c] = r.k]
       /\ heard' = heard \o r.h
  /\ UNCHANGED <<routes, middlewares, evTarget, handlerMap, lastMatch, returned, registered, removed, lastOp, lastRoute, lastApi, life, state>>

\* forwardToOriginalFetch after the real network function resolved with response
forward_resolved(k, response) ==
  [k |-> [k EXCEPT !.pc = "done",
                   !.netOutcomes = Append(@, Resolved(response)),
                   !.events = Append(@, Ev("ON_RESPONSE", k.fwdReq, response)),
                   !.result = Resolved(response)],
   h |-> EventEmitter_emit("ON_RESPONSE", k.fwdReq, response)]

\* forwardToOriginalFetch after the real network function rejected with error
forward_rejected(k, error) ==
  LET k1 == [k EXCEPT !.netOutcomes = Append(@, Rejected(error))] IN
  IF k.fwdFrom = "try" /\ ForwardAwaitedInTry
  THEN wrappedFetch_catch(k1, ForwardRethrow(error))
  ELSE [k |-> [k1 EXCEPT !.pc = "done", !.result = Rejected(ForwardRethrow(error))], h |-> <<>>]

NetworkResolve(c, response) ==
  /\ calls[c].pc = "network"
  /\ LET r == forward_resolved(calls[c], response) IN
       /\ calls' = [calls EXCEPT ![c] = r.k]
       /\ heard' = heard \o r.h
  /\ UNCHANGED <<routes, middlewares, evTarget, handlerMap, lastMatch, returned, registered, removed, lastOp, lastRoute, lastApi, life, state>>

NetworkReject(c, error) ==
  /\ calls[c].pc = "network"
  /\ LET r == forward_rejected(calls[c], error) IN
       /\ calls' = [calls EXCEPT ![c] = r.k]
       /\ heard' = heard \o r.h
  /\ UNCHANGED <<routes, middlewares, evTarget, handlerMap, lastMatch, returned, registered, removed, lastOp, lastRoute, lastApi, life, state>>

----------------------------------------------------------------------------
(* Specifications *)

Init ==
  /\ routes = <<>>
  /\ middlewares = <<>>
  /\ evTarget = [e \in EventTypes |-> <<>>]
  /\ handlerMap = [e \in EventTypes |-> <<>>]
  /\ calls = [c \in CallIds |-> IdleCall]
  /\ heard = <<>>
  /\ lastMatch = NotAsked
  /\ returned = FALSE
  /\ registered = [e \in EventTypes |-> <<>>]
  /\ removed = [e \in EventTypes |-> {}]
  /\ lastOp = NoOp
  /\ lastRoute = NoRoute
  /\ globalFetch = NativeFetch
  /\ wrappers = <<FetchWrapper_new(NativeFetch), FetchWrapper_new(NativeFetch)>>
  /\ apiMock = [isInitialized |-> FALSE, fetchWrapper |-> 1]
  /\ lastApi = NoApi
  /\ stores = <<>>
  /\ containers = <<>>
  /\ heap = <<>>
  /\ lastStore = NoStoreOp
  /\ issued = <<>>
  /\ updaters = <<>>

RouteDelays == {-1, 0, 100}   \* options.delay of the routes registered, in milliseconds

\* the calls a caller makes
FetchInputs ==
  {[input |-> RelInput(<<S_users, S_42>>), init |-> NoInit],
   [input |-> AbsInput(<<S_users, S_a20b>>), init |-> Init_("get")],
   [input |-> RelInput(<<S_users, S_badpct>>), init |-> NoInit],
   [input |-> RelInput(<<S_posts>>), init |-> NoInit],
   [input |-> RelInput(<<S_users, S_42>>), init |-> Init_("post")],
   [input |-> InvalidInput, init |-> NoInit]}

\* a caller that configures the mock, then makes one call and awaits it
Configuring == \A c \in CallIds : calls[c].pc = "idle"

SetupRoute ==
  /\ Configuring
  /\ \E h \in HandlerIds, d \in RouteDelays :
       /\ d >= 0 \/ h = "hOk"   \* the negative delay is tried with one handler
       /\ RouteMatcher_register("GET", P_users_id, h, [delay |-> d])
  /\ UNCHANGED <<lastRoute, lastApi>>

SetupMiddleware ==
  /\ Configuring
  /\ \E m \in MwKinds : MiddlewarePipeline_use(m)
  /\ UNCHANGED lastApi

SetupListener ==
  /\ Configuring
  /\ SumLen(evTarget, EventTypes) < MaxListeners
  /\ \E e \in EventTypes, h \in ListenerIds : EventEmitter_on(e, h)
  /\ UNCHANGED <<lastOp, lastApi>>

CallStep(c) ==
  \/ \E f \in FetchInputs : FetchCall(c, f.input, f.init)
  \/ ParseSettle(c)
  \/ MwCall(c)
  \/ MwRun(c)
  \/ MwResume(c)
  \/ DelayDone(c)
  \/ HandlerRun(c)
  \/ ExecuteSettle(c)
  \/ \E r \in NetResponses : NetworkResolve(c, r)
  \/ \E e \in NetErrors : NetworkReject(c, e)

Next ==
  \/ SetupRoute
  \/ SetupMiddleware
  \/ SetupListener
  \/ CallStep(1)

Spec == Init /\ [][Next]_vars

\* a caller that subscribes and unsubscribes event handlers, emits events directly, and
\* makes an intercepted call through "pass" middleware
MaxOn == 3   \* listeners attached by on

EmitterTypes == {"ON_REQUEST", "ON_RESPONSE"}

SampleRequest == RequestParser_parse(RelInput(<<S_posts>>), NoInit)

\* the payload of a direct emit
Payload(event) ==
  IF event = "ON_RESPONSE"
  THEN [req |-> SampleRequest, resp |-> [status |-> 200, src |-> "network", tx |-> <<>>]]
  ELSE [req |-> SampleRequest, resp |-> NoResp]

OnCall(event, handler) ==
  /\ Configuring
  /\ SumLen(evTarget, EventTypes) < MaxOn
  /\ EventEmitter_on(event, handler)
  /\ lastOp' = [NoOp EXCEPT !.op = "on", !.event = event, !.handler = handler,
                            !.count = listenerCount(event)']
  /\ UNCHANGED lastApi

OffCall(event, handler) ==
  /\ Configuring
  /\ EventEmitter_off(event, handler)
  /\ lastOp' = [NoOp EXCEPT !.op = "off", !.event = event, !.handler = handler,
                            !.was = (handler \in Range(registered[event])),
                            !.same = (evTarget' = evTarget /\ handlerMap' = handlerMap),
                            !.count = listenerCount(event)']

EmitCall(event) ==
  /\ Configuring
  /\ lastOp' = [NoOp EXCEPT !.op = "emit", !.event = event,
                            !.req = Payload(event).req, !.resp = Payload(event).resp,
                            !.invoked = EventEmitter_emit(event, Payload(event).req,
                                                          Payload(event).resp),
                            !.count = listenerCount(event)]
  /\ UNCHANGED <<routes, middlewares, evTarget, handlerMap, calls, heard, lastMatch, returned,
                 registered, removed, lastRoute, lastApi, life, state>>

EventsFetchInputs ==
  {[input |-> RelInput(<<S_users, S_42>>), init |-> NoInit],
   [input |-> RelInput(<<S_posts>>), init |-> NoInit]}

EventsCallStep(c) ==
  \/ \E f \in EventsFetchInputs : FetchCall(c, f.input, f.init)
  \/ ParseSettle(c)
  \/ MwCall(c)
  \/ MwRun(c)
  \/ MwResume(c)
  \/ HandlerRun(c)
  \/ ExecuteSettle(c)
  \/ NetworkResolve(c, [status |-> 200, src |-> "network", tx |-> <<>>])
  \/ \E e \in NetErrors : NetworkReject(c, e)

NextEvents ==
  \/ \E e \in EmitterTypes, h \in ListenerIds : OnCall(e, h)
  \/ \E e \in EmitterTypes, h \in ListenerIds : OffCall(e, h)
  \/ \E e \in EmitterTypes : EmitCall(e)
  \/ /\ Configuring
     /\ RouteMatcher_register("GET", P_users_id, "hOk", [delay |-> 0])
     /\ UNCHANGED <<lastRoute, lastApi>>
  \/ Configuring /\ MiddlewarePipeline_use("pass") /\ UNCHANGED lastApi
  \/ EventsCallStep(1)

SpecEvents == Init /\ [][NextEvents]_vars

\* a caller that registers routes and calls RouteMatcher.match directly
RegisterMethods == {"GET", "post"}
MatchMethods == {"GET", "get", "Get", "POST"}
RoutePatterns == {P_users_id, P_users_42, P_users_opt, P_files_wild}
MatchPaths == {<<S_users, S_42>>, <<S_users>>, <<S_users, S_a20b>>, <<S_users, S_badpct>>,
               <<S_files, S_users, S_c3a9>>, <<S_posts>>}

NextRoutes ==
  \/ \E m \in RegisterMethods, p \in RoutePatterns, h \in {"h1", "h2"} :
       RouteMatcher_register(m, p, h, [delay |-> 0]) /\ UNCHANGED <<lastRoute, lastApi>>
  \/ \E m \in RegisterMethods, p \in RoutePatterns :
       RouteMatcher_unregister(m, p) /\ UNCHANGED lastRoute
  \/ RouteMatcher_clear /\ UNCHANGED lastRoute
  \/ \E m \in MatchMethods, p \in MatchPaths : MatchCall(m, p) /\ UNCHANGED lastRoute

SpecRoutes == Init /\ [][NextRoutes]_vars

\* a caller that registers, re-registers and unregisters routes, lists them and matches
RegistryPatterns == {P_users_id, P_users_42, P_users_opt}
RegistryPaths == {<<S_users, S_42>>, <<S_users>>}

\* where the key stands in the registry before the call
RouteCall(op, method, path, handler, options) ==
  [op |-> op, key |-> RouteKey(method, path), handler |-> handler, options |-> options,
   pos |-> IndexOfKey(routes, RouteKey(method, path)), len |-> Len(routes)]

\* options.delay of the routes a handler is registered with
DelayOf(h) == IF h = "h1" THEN 0 ELSE 100

RegisterCall(method, path, handler, options) ==
  /\ RouteMatcher_register(method, path, handler, options)
  /\ lastRoute' = RouteCall("register", method, path, handler, options)
  /\ UNCHANGED lastApi

UnregisterCall(method, path) ==
  /\ RouteMatcher_unregister(method, path)
  /\ lastRoute' = RouteCall("unregister", method, path, "", [delay |-> 0])

ClearCall == RouteMatcher_clear /\ lastRoute' = [NoRoute EXCEPT !.op = "clear"]

NextRegistry ==
  \/ \E m \in RegisterMethods, p \in RegistryPatterns, h \in {"h1", "h2"} :
       RegisterCall(m, p, h, [delay |-> DelayOf(h)])
  \/ \E m \in RegisterMethods, p \in RegistryPatterns : UnregisterCall(m, p)
  \/ ClearCall
  \/ \E p \in RegistryPaths : MatchCall("get", p) /\ lastRoute' = NoRoute

SpecRegistry == Init /\ [][NextRegistry]_vars

\* a caller that uses the state stores: createStore, getStore, set, and what it does with
\* the values it passed in and the values get() hands out
MaxObjects == 5   \* objects created
MaxStores == 2    \* StateStore instances constructed

StoreKeys == {"cart", "user"}

LiteralCounts == {0, 5}   \* the count of the object literals a caller passes

\* the heap after a caller evaluated the literal { count: v, items: { count: 0 } }
Literal(hp, v) == hp \o <<Obj(0, 0, "caller"), Obj(v, Len(hp) + 1, "caller")>>

\* createStore(key, { count: v, items: { count: 0 } })
CreateStoreCall(key, v) ==
  /\ Len(heap) + 2 <= MaxObjects
  /\ StateStoreManager_hasStore(stores, key) \/ Len(containers) < MaxStores
  /\ LET hp == Literal(heap, v)
         r == StateStoreManager_createStore(stores, containers, key, Len(hp))
     IN /\ heap' = hp
        /\ stores' = r.ss
        /\ containers' = r.cs
        /\ issued' = IF Len(r.cs) > Len(containers)
                     THEN Append(issued, [initial |-> v, n |-> 0]) ELSE issued
        /\ lastStore' = StoreCall("createStore", key, r.store, Len(hp))
  /\ UNCHANGED <<routes, middlewares, evTarget, handlerMap, calls, heard, lastMatch, returned,
                 registered, removed, lastOp, lastRoute, life, updaters>>

StoreFrame ==
  UNCHANGED <<routes, middlewares, evTarget, handlerMap, calls, heard, lastMatch, returned,
              registered, removed, lastOp, lastRoute, lastApi, life>>

\* deleteStore(key)
DeleteStoreCall(key) ==
  /\ stores' = StateStoreManager_deleteStore(stores, key)
  /\ lastStore' = StoreCall("deleteStore", key, StateStoreManager_getStore(stores, key), 0)
  /\ UNCHANGED <<containers, heap, issued, updaters>>
  /\ StoreFrame

\* store.set({ count: v, items: { count: 0 } })
SetCall(s, v) ==
  /\ Len(heap) + 2 <= MaxObjects
  /\ LET hp == Literal(heap, v)
         r == StateStore_set(containers, hp, s, Data(Len(hp)))
     IN /\ containers' = r.cs
        /\ heap' = r.hp
        /\ lastStore' = StoreCall("set", "", s, Len(hp))
  /\ issued' = [issued EXCEPT ![s] = [initial |-> v, n |-> 0]]
  /\ UNCHANGED <<stores, updaters>>
  /\ StoreFrame

\* store.set(current => ({ ...current, count: current.count + 1 }))
UpdateCall(s) ==
  /\ Len(heap) < MaxObjects
  /\ LET r == StateStore_set(containers, heap, s, Updater) IN
       /\ containers' = r.cs
       /\ heap' = r.hp
  /\ lastStore' = StoreCall("set", "", s, 0)
  /\ issued' = [issued EXCEPT ![s].n = @ + 1]
  /\ UNCHANGED <<stores, updaters>>
  /\ StoreFrame

Written == 9   \* the count a caller writes in place

\* the caller writes to an object it created and still holds:  data.count = 9
RetainedWrite(o) ==
  /\ heap[o].by = "caller"
  /\ heap' = Assign(heap, Raw(o), Written).heap
  /\ lastStore' = StoreCall("write", "", NoStore, o)
  /\ UNCHANGED <<stores, containers, issued, updaters>>
  /\ StoreFrame

\* what the attempt does to the value store.get() handed out
Attempt(hp, ref, how) ==
  IF how = "assign" THEN Assign(hp, ref, Written)
  ELSE IF how = "delete" THEN Delete(hp, ref)
  ELSE Assign(hp, ProxyGet(hp, ref, "items"), Written)

Attempts == {"assign", "delete", "nested"}

\* store.get().count = 9,  delete store.get().count,  store.get().items.count = 9
AttemptCall(s, how) ==
  /\ LET r == Attempt(heap, StateStore_get(containers, s), how) IN
       /\ heap' = r.heap
       /\ lastStore' = [StoreCall(how, "", s, 0) EXCEPT !.threw = r.threw,
                                                       !.message = r.message]
  /\ UNCHANGED <<stores, containers, issued, updaters>>
  /\ StoreFrame

NextStore ==
  \/ \E key \in StoreKeys, v \in LiteralCounts : CreateStoreCall(key, v) /\ UNCHANGED lastApi
  \/ \E key \in StoreKeys : DeleteStoreCall(key)
  \/ \E s \in 1..Len(containers), v \in LiteralCounts : SetCall(s, v)
  \/ \E s \in 1..Len(containers) : UpdateCall(s)
  \/ \E o \in 1..Len(heap) : RetainedWrite(o)
  \/ \E s \in 1..Len(containers), how \in Attempts : AttemptCall(s, how)

SpecStore == Init /\ [][NextStore]_vars

\* callers that increment one counter: directly, one update after the other, and from the
\* handler of a route while two intercepted calls are in flight
CounterCallStep(c) ==
  \/ FetchCall(c, RelInput(<<S_users, S_42>>), NoInit)
  \/ ParseSettle(c)
  \/ MwCall(c)
  \/ DelayDone(c)
  \/ HandlerRun(c)
  \/ ExecuteSettle(c)

NextCounter ==
  \/ /\ ~StateStoreManager_hasStore(stores, "cart")
     /\ CreateStoreCall("cart", 0)
     /\ UNCHANGED lastApi
  \/ /\ StateStoreManager_hasStore(stores, "cart")
     /\ RouteMatcher_register("GET", P_users_id, "hInc", [delay |-> 100])
     /\ UNCHANGED <<lastRoute, lastApi>>
  \/ \E s \in 1..Len(containers) : UpdateCall(s)
  \/ \E c \in CallIds : CounterCallStep(c)

SpecCounter == Init /\ [][NextCounter]_vars

\* a caller that registers a route with options.delay and options.headers and makes a call
OptionSets == [delay : {0, 100}, headers : {{}, {"X-Mock"}}]

OptionsCallStep(c) ==
  \/ \E p \in {<<S_users, S_42>>, <<S_posts>>} : FetchCall(c, RelInput(p), NoInit)
  \/ ParseSettle(c)
  \/ MwCall(c)
  \/ DelayDone(c)
  \/ HandlerRun(c)
  \/ ExecuteSettle(c)
  \/ \E r \in NetResponses : NetworkResolve(c, r)
  \/ \E e \in NetErrors : NetworkReject(c, e)

NextOptions ==
  \/ /\ Configuring
     /\ \E h \in HandlerIds, o \in OptionSets :
          RouteMatcher_register("GET", P_users_id, h, o)
     /\ UNCHANGED <<lastRoute, lastApi>>
  \/ OptionsCallStep(1)

SpecOptions == Init /\ [][NextOptions]_vars

\* a caller that creates, deletes and clears stores and keeps updating through the handles
\* it got, also those of stores deleted since
ClearAllCall ==
  /\ stores # <<>>
  /\ stores' = StateStoreManager_clearAll
  /\ lastStore' = StoreCall("clearAll", "", NoStore, 0)
  /\ UNCHANGED <<containers, heap, issued, updaters>>
  /\ StoreFrame

\* getStore(key)
GetStoreCall(key) ==
  /\ lastStore' = StoreCall("getStore", key, StateStoreManager_getStore(stores, key), 0)
  /\ UNCHANGED <<stores, containers, heap, issued, updaters>>
  /\ StoreFrame

NextLifetime ==
  \/ \E key \in StoreKeys, v \in LiteralCounts : CreateStoreCall(key, v) /\ UNCHANGED lastApi
  \/ \E key \in StoreKeys : DeleteStoreCall(key)
  \/ \E key \in StoreKeys : GetStoreCall(key)
  \/ ClearAllCall
  \/ /\ stores # <<>>
     /\ ApiMock_cleanup
     /\ lastStore' = StoreCall("cleanup", "", NoStore, 0)
     /\ UNCHANGED <<lastOp, lastRoute, lastApi, updaters>>
  \/ \E s \in 1..Len(containers) : UpdateCall(s)

SpecLifetime == Init /\ [][NextLifetime]_vars

\* a caller that passes async updaters to set(), next to plain ones
MaxUpdaters == 3   \* invocations of async updaters

\* the async updaters that have not returned their replacement value
Running == {i \in 1..Len(updaters) : updaters[i].value = 0}

\* store.set(async current => { await something; return { ...current, count: current.count + 1 } })
AsyncUpdateCall(s) ==
  /\ Len(updaters) < MaxUpdaters
  /\ LET r == StateStore_set(containers, heap, s, AsyncUpdater) IN
       /\ containers' = r.cs
       /\ heap' = r.hp
       /\ updaters' = Append(updaters, [store |-> s, read |-> containers[s].data,
                                        promise |-> Len(r.hp), value |-> 0,
                                        during |-> Running])
  /\ lastStore' = StoreCall("setAsync", "", s, 0)
  /\ UNCHANGED <<stores, issued>>
  /\ StoreFrame

\* an async updater resumes and returns its replacement value: its promise is fulfilled
UpdaterReturn(i) ==
  /\ updaters[i].value = 0
  /\ heap' = Append(heap, Increment(heap, updaters[i].read))
  /\ updaters' = [updaters EXCEPT ![i].value = Len(heap) + 1]
  /\ UNCHANGED <<stores, containers, lastStore, issued>>
  /\ StoreFrame

NextAsync ==
  \/ /\ ~StateStoreManager_hasStore(stores, "cart")
     /\ \E v \in LiteralCounts : CreateStoreCall("cart", v)
     /\ UNCHANGED lastApi
  \/ \E s \in 1..Len(containers) : AsyncUpdateCall(s)
  \/ \E i \in 1..Len(updaters) : UpdaterReturn(i)
  \/ \E s \in 1..Len(containers) : UpdateCall(s)

SpecAsync == Init /\ [][NextAsync]_vars

\* a caller whose middleware, handler, timers and network all settle: every step of its
\* call that is ready is eventually taken
SettleChains ==
  {<<"pass", "transform">>, <<"throwAfter", "short">>, <<"twiceUncaught", "againCatch">>,
   <<"throwSync", "rejectBefore">>, <<"replace", "waitPass">>, <<"waitPass", "throwAfter">>}

\* a call that matches, one that does not, and one that cannot be parsed
SettleInputs == {RelInput(<<S_users, S_42>>), RelInput(<<S_posts>>), InvalidInput}

\* the routes of the caller: a delayed one, and two whose handlers fail
SettleRoutes == {[handler |-> "hOk", delay |-> 100], [handler |-> "hThrow", delay |-> 0],
                 [handler |-> "hReject", delay |-> 100]}

SettleCallStep(c) ==
  \/ \E i \in SettleInputs : FetchCall(c, i, NoInit)
  \/ ParseSettle(c)
  \/ MwCall(c)
  \/ MwRun(c)
  \/ MwTimer(c)
  \/ MwResume(c)
  \/ DelayDone(c)
  \/ HandlerRun(c)
  \/ ExecuteSettle(c)
  \/ \E r \in NetResponses : NetworkResolve(c, r)
  \/ \E e \in NetErrors : NetworkReject(c, e)

NextSettle ==
  \/ /\ Configuring
     /\ routes = <<>>
     /\ \E r \in SettleRoutes :
          RouteMatcher_register("GET", P_users_id, r.handler, [delay |-> r.delay])
     /\ UNCHANGED <<lastRoute, lastApi>>
  \/ /\ Configuring
     /\ \E m \in MwKinds \cup {"waitPass"} :
          /\ \E ch \in SettleChains : IsPrefix(Append(middlewares, m), ch)
          /\ MiddlewarePipeline_use(m)
     /\ UNCHANGED lastApi
  \/ SettleCallStep(1)

SpecSettle == Init /\ [][NextSettle]_vars /\ WF_vars(SettleCallStep(1))

\* a caller that changes the registries while its call is suspended: at the awaits of the
\* parse, of a middleware's own timer, of the delay and of the real network function
Suspended(k) ==
  \/ k.pc \in {"parse", "delay", "network"}
  \/ k.pc = "pipeline" /\ k.ctl = "wait"

Between == \A c \in CallIds : calls[c].pc = "idle" \/ Suspended(calls[c])

\* the middleware functions of the caller; use is called with a function that is not in
\* the list and was not in it when a call in flight was made
InFlightKinds == {"waitPass", "pass", "transform"}

InFlightHandlers == {"hOk", "hThrow"}

InFlightRegistry ==
  \/ \E h \in InFlightHandlers, d \in {0, 100} :
       RouteMatcher_register("GET", P_users_id, h, [delay |-> d])
  \/ RouteMatcher_unregister("GET", P_users_id)
  \/ RouteMatcher_clear
  \/ \E m \in InFlightKinds :
       /\ m \notin Range(middlewares)
       /\ \A c \in CallIds : m \notin Range(calls[c].chain)
       /\ MiddlewarePipeline_use(m)
  \/ \E m \in InFlightKinds : m \in Range(middlewares) /\ MiddlewarePipeline_remove(m)
  \/ /\ middlewares # <<>>
     /\ middlewares' = MiddlewarePipeline_clear
     /\ UNCHANGED <<routes, evTarget, handlerMap, calls, heard, lastMatch, returned, registered, removed, lastOp, life, state>>

InFlightCallStep(c) ==
  \/ FetchCall(c, RelInput(<<S_users, S_42>>), NoInit)
  \/ ParseSettle(c)
  \/ MwCall(c)
  \/ MwRun(c)
  \/ MwTimer(c)
  \/ MwResume(c)
  \/ DelayDone(c)
  \/ HandlerRun(c)
  \/ ExecuteSettle(c)
  \/ \E r \in NetResponses : NetworkResolve(c, r)
  \/ \E e \in NetErrors : NetworkReject(c, e)

NextInFlight ==
  \/ /\ Between
     /\ InFlightRegistry
     /\ UNCHANGED <<lastRoute, lastApi>>
  \/ /\ Between
     /\ routes # <<>> \/ middlewares # <<>>
     /\ ApiMock_cleanup
     /\ UNCHANGED <<lastOp, lastRoute, lastApi, lastStore>>
  \/ InFlightCallStep(1)

SpecInFlight == Init /\ [][NextInFlight]_vars

\* a caller that installs, uninstalls and resets the mock between registrations, next to a
\* FetchWrapper used on its own
MaxInstalls == 3   \* installs of an interception function

RECURSIVE Installs(_)
Installs(ws) == IF ws = <<>> THEN 0 ELSE ws[Len(ws)].binds + Installs(SubSeq(ws, 1, Len(ws) - 1))

Standalone == 2   \* the FetchWrapper a caller constructed, next to ApiMock's

LifeFrame ==
  UNCHANGED <<routes, middlewares, evTarget, handlerMap, calls, heard, lastMatch, returned,
              registered, removed, lastOp, lastRoute, state>>

SetupCall ==
  /\ apiMock.isInitialized \/ Installs(wrappers) < MaxInstalls
  /\ LET r == ApiMock_setup(apiMock, wrappers, globalFetch) IN
       /\ apiMock' = r.api
       /\ wrappers' = r.ws
       /\ globalFetch' = r.g
  /\ lastApi' = ApiCall("setup", "ApiMock", apiMock.fetchWrapper, apiMock.isInitialized)
  /\ LifeFrame

CleanupCall ==
  /\ ApiMock_cleanup
  /\ lastApi' = ApiCall("cleanup", "ApiMock", apiMock.fetchWrapper, apiMock.isInitialized)
  /\ lastOp' = NoOp
  /\ UNCHANGED <<lastRoute, lastStore>>

\* apiMock.disable() / apiMock.enable(): ApiMock has no such method, the call is a TypeError
ApiMock_absent(op) ==
  /\ lastApi' = [ApiCall(op, "ApiMock", apiMock.fetchWrapper, ApiMock_isActive)
                   EXCEPT !.threw = TRUE]
  /\ UNCHANGED <<globalFetch, wrappers, apiMock>>
  /\ LifeFrame

WrapperSetup(w) ==
  /\ wrappers[w].isSetup \/ Installs(wrappers) < MaxInstalls
  /\ LET r == FetchWrapper_setup(wrappers, globalFetch, w) IN
       /\ wrappers' = r.ws
       /\ globalFetch' = r.g
  /\ lastApi' = ApiCall("setup", "FetchWrapper", w, wrappers[w].isSetup)
  /\ UNCHANGED apiMock
  /\ LifeFrame

WrapperTeardown(w) ==
  /\ LET r == FetchWrapper_teardown(wrappers, globalFetch, w) IN
       /\ wrappers' = r.ws
       /\ globalFetch' = r.g
  /\ lastApi' = ApiCall("teardown", "FetchWrapper", w, wrappers[w].isSetup)
  /\ UNCHANGED apiMock
  /\ LifeFrame

\* a registration made through ApiMock: the latest call is no lifecycle call any more
Registration == lastApi' = [NoApi EXCEPT !.op = "register"]

ApiGet ==
  /\ RouteMatcher_register("GET", P_users_id, "hOk", [delay |-> 0])
  /\ Registration
  /\ UNCHANGED lastRoute

NextInstall ==
  \/ SetupCall
  \/ CleanupCall
  \/ ApiMock_absent("disable")
  \/ ApiMock_absent("enable")
  \/ WrapperSetup(Standalone)
  \/ WrapperTeardown(Standalone)
  \/ ApiGet

SpecInstall == Init /\ [][NextInstall]_vars

\* a caller that registers routes, middleware, listeners and stores, resets the mock with
\* cleanup, and emits events
NextCleanup ==
  \/ SetupCall
  \/ CleanupCall
  \/ ApiGet
  \/ middlewares = <<>> /\ MiddlewarePipeline_use("pass") /\ Registration
  \/ \E h \in ListenerIds :
       /\ SumLen(evTarget, EventTypes) < MaxOn
       /\ EventEmitter_on("ON_REQUEST", h)
       /\ Registration
       /\ UNCHANGED lastOp
  \/ /\ ~StateStoreManager_hasStore(stores, "cart")
     /\ CreateStoreCall("cart", 0)
     /\ Registration
  \/ EmitCall("ON_REQUEST")

SpecCleanup == Init /\ [][NextCleanup]_vars

----------------------------------------------------------------------------
(* Properties *)

CountEv(k, type) == Cardinality({i \in 1..Len(k.events) : k.events[i].type = type})
CountTr(k, e) == Cardinality({t \in 1..Len(k.trace) : k.trace[t].e = e})
Matched(k) == k.match.kind = "hit"
Last(q) == q[Len(q)]
NetworkFailed(k) == k.netOutcomes # <<>> /\ Last(k.netOutcomes).state = "rejected"
HandlerFailed(k) ==
  /\ CountTr(k, "handler") > 0
  /\ HandlerOutcome(k.match.handler).kind \in {"throw", "reject"}

\* C1: a call that returns a response emitted exactly one RESPONSE event and exactly
\* one of MOCK and NETWORK: MOCK alone when it was matched to a route, NETWORK alone
\* when it was not.
C1_EventCounts ==
  \A c \in CallIds :
    LET k == calls[c] IN
    (k.pc = "done" /\ k.result.state = "resolved") =>
      /\ CountEv(k, "ON_RESPONSE") = 1
      /\ CountEv(k, "ON_MOCK") + CountEv(k, "ON_NETWORK") = 1
      /\ Matched(k) => (CountEv(k, "ON_MOCK") = 1 /\ CountEv(k, "ON_NETWORK") = 0)
      /\ ~Matched(k) => (CountEv(k, "ON_NETWORK") = 1 /\ CountEv(k, "ON_MOCK") = 0)

C1_Witness ==
  \E c \in CallIds :
    /\ calls[c].pc = "done" /\ calls[c].result.state = "resolved"
    /\ Matched(calls[c]) /\ calls[c].match.handler = "hReject"
    /\ CountEv(calls[c], "ON_MOCK") = 1

\* C2: match returns handler, options and decoded params of the earliest-registered
\* entry whose method equals the requested one (case-insensitively) and whose pattern
\* matches the path, and returns null exactly when there is no such entry.
C2_FirstMatch ==
  lastMatch.asked =>
    LET rs == routes
        cands == {i \in 1..Len(rs) :
                    /\ toUpperCase(rs[i].key[1]) = toUpperCase(lastMatch.method)
                    /\ Exec(rs[i].pattern, lastMatch.path).ok}
    IN IF cands = {}
       THEN lastMatch.result.kind = "null"
       ELSE LET i == CHOOSE j \in cands : \A l \in cands : j <= l
                caps == Exec(rs[i].pattern, lastMatch.path).caps
                r == lastMatch.result
            IN /\ r.kind = "hit"
               /\ r.handler = rs[i].handler
               /\ r.options = rs[i].options
               /\ DOMAIN r.params =
                    {rs[i].keys[j] : j \in {l \in 1..Len(caps) : caps[l] # Undefined}}
               /\ \A j \in 1..Len(caps) :
                    caps[j] # Undefined =>
                      r.params[rs[i].keys[j]] = decodeURIComponent(caps[j]).val

\* C3: a call rejects only if it was forwarded to the real network function and that
\* function rejected; every other finished call resolved with a response.
C3_OnlyNetworkFailureEscapes ==
  \A c \in CallIds :
    LET k == calls[c] IN
    k.pc = "done" =>
      IF NetworkFailed(k)
      THEN k.result.state = "rejected"
      ELSE k.result.state = "resolved" /\ k.result.resp # NoResp

C3_Witness ==
  \E c \in CallIds :
    /\ calls[c].pc = "done" /\ calls[c].result.state = "resolved"
    /\ calls[c].input.path = <<S_users, S_badpct>>
    /\ routes # <<>>
    /\ \E i \in 1..Len(heard) : heard[i].threw

\* C4 (as stated): when the handler fails, the call resolves with a synthesized
\* status-500 response, a RESPONSE event carries it, and the call is not forwarded.
C4_Original ==
  \A c \in CallIds :
    LET k == calls[c] IN
    (k.pc = "done" /\ HandlerFailed(k)) =>
      /\ k.result.state = "resolved"
      /\ k.result.resp.status = 500
      /\ k.events # <<>> /\ Last(k.events) = Ev("ON_RESPONSE", k.reqp, k.result.resp)
      /\ k.netCalls = <<>>

\* C4 (amended): when the handler fails, the terminal operation yields a synthesized
\* status-500 response instead of failing; the call resolves with a response, which is
\* that status-500 response unless a middleware that invoked its continuation returned
\* a different one; one RESPONSE event carries the response the call resolves with, and
\* the call is not forwarded.
C4_HandlerFailureAbsorbed ==
  \A c \in CallIds :
    LET k == calls[c] IN
    (k.pc = "done" /\ HandlerFailed(k)) =>
      /\ \A t \in 1..Len(k.trace) :
           k.trace[t].e = "handler" => k.trace[t].val = HandlerErrorResponse("handler failed")
      /\ k.result.state = "resolved"
      /\ (\A i \in 1..Len(middlewares) : middlewares[i] # "replace") =>
            (k.result.resp.status = 500 /\ k.result.resp.src = "Handler error")
      /\ CountEv(k, "ON_RESPONSE") = 1
      /\ Last(k.events) = Ev("ON_RESPONSE", k.reqp, k.result.resp)
      /\ k.netCalls = <<>>

C4_Witness ==
  \E c \in CallIds :
    /\ calls[c].pc = "done" /\ HandlerFailed(calls[c])
    /\ calls[c].match.handler = "hThrow"
    /\ calls[c].result.resp.status = 500

\* C5: when a forwarded call's real network function rejects, the call rejects with
\* that same error, no RESPONSE event is emitted for it, and the real network function
\* was invoked once only.
C5_ForwardFailurePropagates ==
  \A c \in CallIds :
    LET k == calls[c] IN
    (k.pc = "done" /\ NetworkFailed(k)) =>
      /\ k.result = Rejected(Last(k.netOutcomes).err)
      /\ CountEv(k, "ON_RESPONSE") = 0
      /\ Len(k.netCalls) = 1

C5_Witness ==
  \E c \in CallIds :
    /\ calls[c].pc = "done" /\ calls[c].fwdFrom = "try"
    /\ calls[c].result = Rejected("NetworkError")

\* C10: every invocation of the real network function receives exactly the input and
\* init the caller passed, and a forwarded call that resolves returns the response the
\* real network function produced.
C10_ForwardVerbatim ==
  \A c \in CallIds :
    LET k == calls[c] IN
    /\ \A i \in 1..Len(k.netCalls) : k.netCalls[i] = [input |-> k.input, init |-> k.init]
    /\ (k.pc = "done" /\ ~Matched(k) /\ k.result.state = "resolved") =>
         /\ Len(k.netCalls) = 1
         /\ k.result.resp = Last(k.netOutcomes).resp

C10_Witness ==
  \E c \in CallIds :
    /\ calls[c].pc = "done" /\ calls[c].result.state = "resolved"
    /\ calls[c].netCalls = <<[input |-> RelInput(<<S_posts>>), init |-> NoInit]>>
    /\ calls[c].req.baseUrl = "http://localhost"

----------------------------------------------------------------------------
(* Properties of the middleware chain *)

\* middleware that invoke their continuation once and return
WellBehaved == {"pass", "transform", "replace"}

Returned(kind, pos, r) ==
  CASE kind = "transform" -> Transform(pos, r)
    [] kind = "replace" -> OwnResponse(pos)
    [] OTHER -> r

TerminalResult(k) == finalHandler_settle(HandlerOutcome(k.match.handler)).ret

RECURSIVE Wind(_, _)
Wind(i, n) == IF i > n THEN <<>> ELSE <<Tr("enter", i, NoResp)>> \o Wind(i + 1, n)

TerminalTrace(k) ==
  <<Tr("terminal", 0, NoResp)>>
  \o (IF k.match.options.delay > 0 THEN <<Tr("delayed", 0, NoResp)>> ELSE <<>>)
  \o <<Tr("handler", 0, TerminalResult(k))>>

RECURSIVE Unwind(_, _, _)
Unwind(chain, i, r) ==
  IF i = 0 THEN <<>>
  ELSE LET v == Returned(chain[i], i, r) IN
       <<Tr("resume", i, r), Tr("return", i, v)>> \o Unwind(chain, i - 1, v)

RECURSIVE Folded(_, _, _)
Folded(chain, i, r) == IF i = 0 THEN r ELSE Folded(chain, i - 1, Returned(chain[i], i, r))

\* C6: with middleware m1..mn that each invoke their continuation once and return,
\* execute runs the parts before the continuation in the order m1..mn, then the
\* terminal operation once, then the parts after it in the order mn..m1, and its
\* result is the one m1 returned.
C6_OnionOrder ==
  \A c \in CallIds :
    LET k == calls[c] n == Len(middlewares) IN
    (k.pc = "done" /\ Matched(k) /\ \A i \in 1..n : middlewares[i] \in WellBehaved) =>
      /\ k.trace = Wind(1, n) \o TerminalTrace(k) \o Unwind(middlewares, n, TerminalResult(k))
      /\ k.result = Resolved(Folded(middlewares, n, TerminalResult(k)))
      /\ n > 0 => k.retFrom = 1

C6_Witness ==
  \E c \in CallIds :
    /\ calls[c].pc = "done" /\ Matched(calls[c])
    /\ middlewares = <<"transform", "pass">>
    /\ calls[c].result.resp.tx = <<1>>

\* C7: once a middleware returned a response without invoking its continuation, no
\* later middleware and not the terminal operation is invoked for that call, and the
\* call emits MOCK and then RESPONSE with the response it resolves with (the
\* short-circuit response itself when the middleware is the first).
C7_ShortCircuit ==
  \A c \in CallIds :
    LET k == calls[c] IN
    \A p \in 1..Len(middlewares) :
      (/\ k.pc = "done" /\ Matched(k)
       /\ middlewares[p] = "short"
       /\ \E t \in 1..Len(k.trace) : k.trace[t] = Tr("return", p, OwnResponse(p))) =>
        /\ \A t \in 1..Len(k.trace) :
             /\ k.trace[t].e = "enter" => k.trace[t].pos <= p
             /\ k.trace[t].e \notin {"terminal", "delayed", "handler"}
        /\ k.result.state = "resolved"
        /\ p = 1 => k.result.resp = OwnResponse(1)
        /\ k.events = <<Ev("ON_REQUEST", k.req, NoResp), Ev("ON_MOCK", k.reqp, NoResp),
                        Ev("ON_RESPONSE", k.reqp, k.result.resp)>>

NextStage(entry, p) ==
  IF p < Len(middlewares) THEN entry.e = "enter" /\ entry.pos = p + 1
  ELSE entry.e = "terminal"

StageSettled(entry, p) ==
  IF p < Len(middlewares) THEN entry.e \in {"return", "recovered"} /\ entry.pos = p + 1
  ELSE entry.e = "handler"

\* C8: a middleware that throws or rejects without having invoked its continuation
\* does not make execute reject: the next middleware in registration order (the
\* terminal operation if none remains) is run at once and exactly once, and its result
\* is passed upstream unchanged.
C8_FailOpen ==
  \A c \in CallIds :
    LET k == calls[c] IN
    /\ k.ctl # "exc"
    /\ (k.pc = "done" /\ Matched(k)) => k.result.state = "resolved"
    /\ \A t \in 1..Len(k.trace) :
         k.trace[t].e = "failedBefore" =>
           LET p == k.trace[t].pos
               us == {u \in (t + 1)..Len(k.trace) :
                        k.trace[u].e = "recovered" /\ k.trace[u].pos = p}
           IN /\ t < Len(k.trace) => NextStage(k.trace[t + 1], p)
              /\ k.pc = "done" => us # {}
              /\ \A u \in us :
                   /\ Cardinality({x \in (t + 1)..(u - 1) : NextStage(k.trace[x], p)}) = 1
                   /\ StageSettled(k.trace[u - 1], p)
                   /\ k.trace[u].val = k.trace[u - 1].val

C8_Witness ==
  \E c \in CallIds :
    /\ calls[c].pc = "done" /\ Matched(calls[c])
    /\ middlewares = <<"rejectBefore", "transform">>
    /\ calls[c].result.resp.tx = <<2>>
    /\ \E t \in 1..Len(calls[c].trace) : calls[c].trace[t].e = "recovered"

\* C9: a second or later invocation of a middleware's continuation is refused with an
\* error that goes to that middleware and runs nothing downstream; a middleware that
\* catches the error and returns its first result leaves the terminal operation
\* invoked exactly once.
C9_ContinuationOnce ==
  \A c \in CallIds :
    LET k == calls[c] IN
    /\ \A t \in 1..Len(k.trace) :
         k.trace[t].e = "refused" =>
           LET p == k.trace[t].pos
               firsts == {x \in 1..(t - 1) : k.trace[x].e = "resume" /\ k.trace[x].pos = p}
           IN /\ Cardinality(firsts) = 1
              /\ t < Len(k.trace) =>
                   /\ k.trace[t + 1].pos = p
                   /\ k.trace[t + 1].e \in {"refused", "return", "failedAfter"}
                   /\ k.trace[t + 1].e = "return" =>
                        \A x \in firsts : k.trace[t + 1].val = k.trace[x].val
    /\ (/\ k.pc = "done" /\ Matched(k)
        /\ \A i \in 1..Len(middlewares) : middlewares[i] \in WellBehaved \cup {"againCatch"}) =>
         /\ CountTr(k, "terminal") = 1
         /\ CountTr(k, "handler") = 1
         /\ CountTr(k, "refused") =
              2 * Cardinality({i \in 1..Len(middlewares) : middlewares[i] = "againCatch"})

C9_Witness ==
  \E c \in CallIds :
    /\ calls[c].pc = "done" /\ Matched(calls[c])
    /\ middlewares = <<"againCatch">>
    /\ CountTr(calls[c], "refused") = 2
    /\ CountTr(calls[c], "terminal") = 1

----------------------------------------------------------------------------
(* Properties of failed normalization and matching, and of the events of a call *)

\* wrappedFetch has taken the call past RequestParser.parse
Started(k) == k.pc \notin {"idle", "parse"}

NormalizeFailed(k) == Started(k) /\ ParseRejects(k.input, k.init)

MatchFailed(k) ==
  /\ Started(k) /\ ~ParseRejects(k.input, k.init)
  /\ RouteMatcher_match(routes, k.req.method, k.req.path).kind = "throw"

EventTypesOf(k) == [i \in 1..Len(k.events) |-> k.events[i].type]


\* C11: when normalizing the arguments or matching the route fails, the call is
\* forwarded to the real network function with the caller's own input and init,
\* exactly once; no middleware and no handler runs, no MOCK event is emitted, and the
\* call settles as the real network function did.
C11_FailureForwarded ==
  \A c \in CallIds :
    LET k == calls[c] IN
    (NormalizeFailed(k) \/ MatchFailed(k)) =>
      /\ k.pc \in {"network", "done"}
      /\ k.netCalls = <<[input |-> k.input, init |-> k.init]>>
      /\ k.trace = <<>>
      /\ CountEv(k, "ON_MOCK") = 0
      /\ k.pc = "done" => (Len(k.netOutcomes) = 1 /\ k.result = k.netOutcomes[1])

C11_Witness ==
  \E c \in CallIds :
    /\ MatchFailed(calls[c]) /\ calls[c].pc = "done"
    /\ calls[c].result.state = "resolved"
    /\ calls[c].netCalls = <<[input |-> RelInput(<<S_users, S_badpct>>), init |-> NoInit]>>

\* C12: a call whose normalization succeeded emits REQUEST, then MOCK (matched) or
\* NETWORK (not matched), then RESPONSE; REQUEST is emitted before the route is
\* matched (it is there even when matching fails), and RESPONSE only once the
\* middleware chain and handler, or the real network call, have settled.
C12_EventOrder ==
  \A c \in CallIds :
    LET k == calls[c]
        expected == IF Matched(k) THEN <<"ON_REQUEST", "ON_MOCK", "ON_RESPONSE">>
                    ELSE <<"ON_REQUEST", "ON_NETWORK", "ON_RESPONSE">>
    IN
    (Started(k) /\ ~ParseRejects(k.input, k.init)) =>
      /\ Len(k.events) >= 2
      /\ IsPrefix(EventTypesOf(k), expected)
      /\ (k.pc = "done" /\ k.result.state = "resolved") => EventTypesOf(k) = expected
      /\ CountEv(k, "ON_RESPONSE") > 0 =>
           /\ k.pc = "done"
           /\ Matched(k) =>
                /\ k.stack = <<>>
                /\ CountTr(k, "enter") = CountTr(k, "return") + CountTr(k, "recovered")
                /\ Last(k.trace).e \in {"return", "recovered", "handler"}
           /\ ~Matched(k) => (k.netOutcomes # <<>> /\ Last(k.netOutcomes).state = "resolved")

C12_Witness ==
  \E c \in CallIds :
    /\ MatchFailed(calls[c]) /\ calls[c].pc = "done"
    /\ EventTypesOf(calls[c]) = <<"ON_REQUEST", "ON_NETWORK", "ON_RESPONSE">>

\* C13: every call, without exception, emits exactly one REQUEST event carrying its
\* request record, before any MOCK, NETWORK or RESPONSE event of the call.
C13_RequestAlways ==
  \A c \in CallIds :
    LET k == calls[c] IN
    Started(k) =>
      /\ CountEv(k, "ON_REQUEST") = 1
      /\ k.events[1].type = "ON_REQUEST"
      /\ k.events[1].req.defined
      /\ k.events[1].req = k.req

----------------------------------------------------------------------------
(* Properties of the route's delay *)

\* C14 (as stated): a call matched to a route registered with delay d > 0 is not
\* answered before d milliseconds have elapsed, whatever middleware is registered; a
\* route with d <= 0 adds no wait.
C14_Original ==
  \A c \in CallIds :
    LET k == calls[c] d == k.match.options.delay IN
    (k.pc = "done" /\ Matched(k)) =>
      IF d > 0 THEN k.waited >= d ELSE k.waited = 0

\* C14 (amended): a call matched to a route registered with delay d > 0 whose
\* middleware chain reaches the terminal operation is not answered before d
\* milliseconds have elapsed; a call that the middleware answer without reaching the
\* terminal operation is answered without that wait; a route with d <= 0 adds no wait.
C14_DelayBeforeHandler ==
  \A c \in CallIds :
    LET k == calls[c] d == k.match.options.delay IN
    /\ (k.pc = "done" /\ Matched(k)) =>
         IF d > 0 /\ CountTr(k, "terminal") > 0 THEN k.waited >= d ELSE k.waited = 0
    /\ (Matched(k) /\ d > 0) =>
         \A t \in 1..Len(k.trace) : k.trace[t].e = "handler" => k.waited >= d

C14_Witness ==
  \E c \in CallIds :
    /\ calls[c].pc = "done" /\ Matched(calls[c])
    /\ calls[c].match.options.delay = 100
    /\ Len(middlewares) = 2
    /\ calls[c].waited = 100

----------------------------------------------------------------------------
(* Properties of the params a call's observers see *)

EventsOfType(k, types) == {i \in 1..Len(k.events) : k.events[i].type \in types}

\* C15: for a matched call the REQUEST event carries an empty params mapping while the
\* MOCK and RESPONSE events, every middleware and the handler get the params the
\* match extracted; for a call that is not matched every event carries empty params.
C15_ParamsVisibility ==
  \A c \in CallIds :
    LET k == calls[c]
        extracted == RouteMatcher_match(routes, k.req.method, k.req.path).params
    IN
    Started(k) =>
      /\ \A i \in EventsOfType(k, {"ON_REQUEST"}) :
           k.events[i].req.defined /\ k.events[i].req.params = EmptyParams
      /\ Matched(k) =>
           /\ \A i \in EventsOfType(k, {"ON_MOCK", "ON_RESPONSE"}) :
                k.events[i].req.defined /\ k.events[i].req.params = extracted
           /\ \A i \in 1..Len(k.seen) :
                k.seen[i].req.defined /\ k.seen[i].req.params = extracted
      /\ ~Matched(k) =>
           /\ k.seen = <<>>
           /\ \A i \in 1..Len(k.events) :
                k.events[i].req.defined /\ k.events[i].req.params = EmptyParams

----------------------------------------------------------------------------
(* Properties of the EventEmitter *)

HandlersOf(invoked) == [i \in 1..Len(invoked) |-> invoked[i].h]

Times(invoked, handler) == Cardinality({i \in 1..Len(invoked) : invoked[i].h = handler})

RECURSIVE IsSubseq(_, _)
\* p can be obtained from q by leaving elements out
IsSubseq(p, q) ==
  IF p = <<>> THEN TRUE
  ELSE IF q = <<>> THEN FALSE
  ELSE IF Head(p) = Head(q) THEN IsSubseq(Tail(p), Tail(q))
  ELSE IsSubseq(p, Tail(q))

RECURSIVE Deliveries(_, _)
\* the number of handler invocations the events of a call make
Deliveries(events, i) ==
  IF i > Len(events) THEN 0
  ELSE Len(evTarget[events[i].type]) + Deliveries(events, i + 1)

\* C16: emit(type, payload) invokes every handler currently registered for the type,
\* each with the payload, in the order of their registration, and no other handler.
C16_EmitInRegistrationOrder ==
  lastOp.op = "emit" =>
    /\ HandlersOf(lastOp.invoked) = registered[lastOp.event]
    /\ \A i \in 1..Len(lastOp.invoked) :
         /\ lastOp.invoked[i].type = lastOp.event
         /\ lastOp.invoked[i].req = lastOp.req
         /\ lastOp.invoked[i].resp = lastOp.resp

\* C17: when a listener throws during emit, the remaining listeners registered for
\* the type are still invoked in order and emit returns normally; the intercepted call
\* that made the emission completes as it would have without the failure.
C17_ListenerFailureIsolated ==
  /\ lastOp.op = "emit" =>
       /\ \A i \in 1..Len(lastOp.invoked) : lastOp.invoked[i].threw => lastOp.invoked[i].caught
       /\ Len(lastOp.invoked) = Len(evTarget[lastOp.event])
       /\ IsSubseq(registered[lastOp.event], HandlersOf(lastOp.invoked))
  /\ \A c \in CallIds :
       LET k == calls[c] IN
       /\ \A i \in 1..Len(heard) : heard[i].threw => heard[i].caught
       /\ Started(k) => Len(heard) = Deliveries(k.events, 1)
       /\ (k.pc = "done" /\ Matched(k)) =>
            /\ k.result = Resolved(TerminalResult(k))
            /\ EventTypesOf(k) = <<"ON_REQUEST", "ON_MOCK", "ON_RESPONSE">>
       /\ (k.pc = "done" /\ ~Matched(k)) =>
            /\ k.result = k.netOutcomes[1]
            /\ k.result.state = "resolved" =>
                 EventTypesOf(k) = <<"ON_REQUEST", "ON_NETWORK", "ON_RESPONSE">>

C17_Witness ==
  /\ lastOp.op = "emit" /\ HandlersOf(lastOp.invoked) = <<"L_throw", "L_ok">>
  /\ lastOp.event = "ON_REQUEST"
  /\ calls[1].pc = "done" /\ Matched(calls[1])
  /\ Len(heard) >= 2 /\ heard[1].threw /\ heard[2].h = "L_ok" /\ heard[2].type = "ON_REQUEST"
  /\ calls[1].result.resp.src = "hOk"

\* C18: a handler registered twice for one event type counts as one registration:
\* each emit of the type invokes it exactly once, listenerCount counts it once, and
\* one off removes it.
C18_DoubleOnIsSingle ==
  /\ \A e \in EventTypes : listenerCount(e) = Len(registered[e])
  /\ lastOp.op = "on" => lastOp.count = Len(registered[lastOp.event])
  /\ lastOp.op = "emit" =>
       \A h \in Range(registered[lastOp.event]) : Times(lastOp.invoked, h) = 1
  /\ (lastOp.op = "off" /\ returned) =>
       \A i \in 1..Len(evTarget[lastOp.event]) : evTarget[lastOp.event][i].h # lastOp.handler

\* C19: once off(event, handler) has returned true, no emit of that type invokes the
\* handler until it is registered again with on.
C19_OffStopsInvocation ==
  lastOp.op = "emit" =>
    \A i \in 1..Len(lastOp.invoked) : lastOp.invoked[i].h \notin removed[lastOp.event]

\* C20: after on(event, handler) the first off(event, handler) returns true and every
\* further one without an on in between returns false; off for a handler or type that
\* is not registered returns false and changes no registration.
C20_OffReturnValue ==
  lastOp.op = "off" =>
    /\ returned = lastOp.was
    /\ ~lastOp.was => lastOp.same
    /\ lastOp.handler \notin Range(registered[lastOp.event])

C20_Witness ==
  /\ lastOp.op = "off" /\ ~returned
  /\ lastOp.handler \in removed[lastOp.event]
  /\ registered[lastOp.event] # <<>>

----------------------------------------------------------------------------
(* The registry's order *)

\* the (method, pattern) keys getRoutes lists, in its order
ListedKeys(rs) ==
  [i \in 1..Len(rs) |-> <<RouteMatcher_getRoutes(rs)[i].method, RouteMatcher_getRoutes(rs)[i].path>>]

\* after register: the key stands where it stood, or at the end if it is new, with the
\* handler and options just given; after unregister: the key is gone, and the value
\* returned tells whether it was there
RegistryCallEffect ==
  LET keys == ListedKeys(routes)
      there == lastRoute.pos # 0
  IN /\ lastRoute.op = "register" =>
          LET i == IF there THEN lastRoute.pos ELSE lastRoute.len + 1 IN
          /\ Len(keys) = IF there THEN lastRoute.len ELSE lastRoute.len + 1
          /\ keys[i] = lastRoute.key
          /\ routes[i].handler = lastRoute.handler
          /\ RouteMatcher_getRoutes(routes)[i].options = lastRoute.options
     /\ lastRoute.op = "unregister" =>
          /\ returned = there
          /\ Len(keys) = IF there THEN lastRoute.len - 1 ELSE lastRoute.len
          /\ \A i \in 1..Len(keys) : keys[i] # lastRoute.key

\* a hit is the first listed entry of the requested method whose pattern accepts the path
MatchInListedOrder ==
  lastMatch.asked /\ lastMatch.result.kind = "hit" =>
    LET cands == {i \in 1..Len(routes) :
                    /\ ListedKeys(routes)[i][1] = toUpperCase(lastMatch.method)
                    /\ Exec(routes[i].pattern, lastMatch.path).ok}
    IN /\ cands # {}
       /\ LET i == CHOOSE j \in cands : \A l \in cands : j <= l IN
            /\ lastMatch.result.handler = routes[i].handler
            /\ lastMatch.result.options = routes[i].options

\* in every step the keys that stay keep their order and any new key follows them
OrderKept ==
  LET before == ListedKeys(routes)
      after == ListedKeys(routes')
      stay == SelectSeq(before, LAMBDA k : k \in Range(after))
  IN /\ Len(stay) <= Len(after)
     /\ stay = SubSeq(after, 1, Len(stay))
     /\ \A i \in Len(stay) + 1..Len(after) : after[i] \notin Range(before)

----------------------------------------------------------------------------
(* Lifecycle *)

\* the interception function of FetchWrapper w is the ambient entry point
InstalledBy(w) == globalFetch.w = w /\ globalFetch.n # 0

\* C21: after cleanup, installed before or not, ApiMock's interception is uninstalled,
\* getRoutes() is empty, no middleware remains, getStore finds no store under any key,
\* and no emission invokes a listener that was registered before the cleanup.
C21_CleanupClearsAll ==
  /\ lastApi.op = "cleanup" =>
       /\ ~ApiMock_isActive
       /\ ~InstalledBy(lastApi.w)
       /\ RouteMatcher_getRoutes(routes) = <<>>
       /\ middlewares = <<>>
       /\ \A key \in StoreKeys : StateStoreManager_getStore(stores, key) = NoStore
       /\ \A e \in EventTypes : listenerCount(e) = 0
  /\ lastOp.op = "emit" =>
       \A i \in 1..Len(lastOp.invoked) : lastOp.invoked[i].h \notin removed[lastOp.event]

\* C22: setup while installed changes nothing: the entry point is the same function and
\* the captured real network function is the same reference, for FetchWrapper.setup and
\* for ApiMock.setup.
C22_SetupIdempotent ==
  lastApi.op = "setup" /\ lastApi.was =>
    /\ globalFetch = lastApi.g
    /\ lastApi.who = "ApiMock" =>
         /\ apiMock = [isInitialized |-> TRUE, fetchWrapper |-> lastApi.w]
    /\ wrappers[lastApi.w].originalFetch = lastApi.orig
    /\ wrappers[lastApi.w].isSetup

\* ApiMock.setup was repeated right after a repeated setup of the FetchWrapper used alone
C22_Witness ==
  /\ lastApi.op = "setup" /\ lastApi.was /\ lastApi.who = "ApiMock"
  /\ lastApi.pOp = "setup" /\ lastApi.pWas /\ lastApi.pWho = "FetchWrapper"
  /\ InstalledBy(Standalone)

\* the latest call was a teardown of wrapper w that came right after the setup that
\* installed it
RoundTrip ==
  /\ lastApi.op = "teardown" /\ lastApi.was
  /\ lastApi.pOp = "setup" /\ lastApi.pWho = "FetchWrapper" /\ lastApi.pW = lastApi.w
  /\ ~lastApi.pWas

\* C23 as stated: teardown puts back the captured reference, so setup followed by
\* teardown leaves the entry point as it was immediately before setup; teardown when not
\* installed changes nothing.
C23_Original ==
  lastApi.op = "teardown" =>
    IF lastApi.was
    THEN /\ globalFetch = lastApi.orig
         /\ RoundTrip => globalFetch = lastApi.pG
    ELSE /\ globalFetch = lastApi.g
         /\ ~wrappers[lastApi.w].isSetup
         /\ wrappers[lastApi.w].originalFetch = lastApi.orig

\* C23: teardown (also the one cleanup makes) puts back the reference the wrapper
\* captured when it was constructed; ApiMock constructs its wrapper in setup, so
\* ApiMock.setup followed by cleanup leaves the entry point as it was before that setup;
\* teardown when not installed changes nothing.
C23_TeardownRestoresCaptured ==
  /\ lastApi.op = "teardown" =>
       IF lastApi.was
       THEN /\ globalFetch = lastApi.orig
            /\ ~wrappers[lastApi.w].isSetup
            /\ wrappers[lastApi.w].originalFetch = lastApi.orig
       ELSE /\ globalFetch = lastApi.g
            /\ ~wrappers[lastApi.w].isSetup
            /\ wrappers[lastApi.w].originalFetch = lastApi.orig
  /\ lastApi.op = "cleanup" =>
       IF lastApi.was
       THEN /\ globalFetch = lastApi.orig
            /\ lastApi.pOp = "setup" /\ lastApi.pWho = "ApiMock" /\ ~lastApi.pWas
                 => globalFetch = lastApi.pG
       ELSE globalFetch = lastApi.g

\* a FetchWrapper constructed before ApiMock installed its own was set up and torn down:
\* the entry point is the real network function, not ApiMock's interception function
C23_Witness ==
  /\ RoundTrip
  /\ globalFetch = NativeFetch
  /\ lastApi.pG # NativeFetch
  /\ ApiMock_isActive

\* C24: disable() stops interception and leaves every route, middleware, listener and
\* store as it is, so that enable() resumes mocking with the same configuration.
C24_DisableKeepsConfiguration ==
  /\ lastApi.op = "disable" =>
       /\ ~lastApi.threw
       /\ ~ApiMock_isActive
       /\ ~InstalledBy(lastApi.w)
  /\ lastApi.op = "enable" =>
       /\ ~lastApi.threw
       /\ ApiMock_isActive

----------------------------------------------------------------------------
(* State stores *)

\* C25: createStore under a key that has a store returns that same container, holding
\* the value it held before the call and not the value passed.
C25_CreateStoreKeepsFirst ==
  lastStore.op = "createStore" /\ lastStore.had # NoStore =>
    /\ lastStore.store = lastStore.had
    /\ StateStoreManager_getStore(stores, lastStore.key) = lastStore.had
    /\ Observed(containers, heap, lastStore.store) = lastStore.value
    /\ containers[lastStore.store].data # lastStore.arg

\* createStore was called for an existing key with a value other than the one held
C25_Witness ==
  /\ lastStore.op = "createStore" /\ lastStore.had # NoStore
  /\ Value(heap, lastStore.arg).count = 5
  /\ lastStore.value.count = 1

\* C26: what get() of a container shows changes only in a set() call on that container.
C26_OnlySetChanges ==
  [][\A s \in 1..Len(containers) :
       Observed(containers, heap, s)' # Observed(containers, heap, s)
         => lastStore'.op = "set" /\ lastStore'.store = s]_vars

\* C27: assigning to, deleting from, or writing into a nested object of the value get()
\* returned fails with the readonly error and leaves the container's value as it was.
C27_ReadonlyView ==
  lastStore.op \in Attempts =>
    /\ lastStore.threw
    /\ lastStore.message = ReadonlyError
    /\ Observed(containers, heap, lastStore.store) = lastStore.value

\* a write into the nested object of a container's value was attempted
C27_Witness ==
  /\ lastStore.op = "nested" /\ lastStore.threw
  /\ lastStore.value.items # Absent

\* C28: every increment update is applied to the value current when it is made: after N
\* of them, made one after the other or by the handlers of calls in flight together, the
\* count is the initial count plus N.
C28_IncrementsAccumulate ==
  \A s \in 1..Len(containers) :
    Observed(containers, heap, s).count = issued[s].initial + issued[s].n

\* two calls are in flight, the handlers of both have run, and a direct update was made
C28_Witness ==
  /\ Len(containers) = 1 /\ issued[1].n = 3
  /\ \A c \in CallIds : calls[c].pc = "pipeline" /\ Len(calls[c].seen) = 1

----------------------------------------------------------------------------
(* Route options *)

\* C30: the response of a call matched to a route registered with options.headers has
\* those headers.
C30_OptionHeadersApplied ==
  \A c \in CallIds :
    calls[c].pc = "done" /\ Matched(calls[c]) /\ calls[c].result.state = "resolved" =>
      calls[c].match.options.headers \subseteq ResponseHeaders(calls[c].result.resp)

----------------------------------------------------------------------------
(* Invocation counts of one execute call *)

\* the number of times the middleware at position p was invoked for the call
Entered(k, p) ==
  Cardinality({t \in 1..Len(k.trace) : k.trace[t].e = "enter" /\ k.trace[t].pos = p})

\* C31: for one execute call, whatever the middleware do, the terminal operation is
\* invoked at most once and each registered middleware is invoked at most once.
C31_InvokedAtMostOnce ==
  \A c \in CallIds :
    /\ CountTr(calls[c], "terminal") <= 1
    /\ \A p \in 1..Len(middlewares) : Entered(calls[c], p) <= 1

\* the middleware registered since the call was made, in registration order
Stable(k) ==
  LET Kept(m) == m \in Range(middlewares) IN SelectSeq(k.chain, Kept)

\* those of them invoked for the call, in the order of their invocations
RanStable(k) ==
  LET Kept(m) == m \in Range(Stable(k)) IN SelectSeq(k.ran, Kept)

\* C32: adding, removing or clearing middleware while a call is suspended does not disturb
\* it: the middleware registered for the whole duration of the call run exactly once for
\* it, in registration order (no middleware of these callers short-circuits).
C32_ChainUndisturbed ==
  \A c \in CallIds :
    LET k == calls[c] IN
    Matched(k) =>
      /\ IsPrefix(RanStable(k), Stable(k))
      /\ k.pc = "done" => RanStable(k) = Stable(k)

\* C33: once a call has matched a route, re-registering, unregistering or clearing routes
\* (a full cleanup included) while the call is suspended in middleware or in the delay
\* does not change the handler, options or params used to complete it: the handler
\* invoked, the delay waited and the params seen are those of its match result.
C33_MatchKept ==
  \A c \in CallIds :
    LET k == calls[c] d == k.match.options.delay IN
    Matched(k) =>
      /\ k.reqp.params = k.match.params
      /\ \A i \in 1..Len(k.seen) : k.seen[i].req = k.reqp
      /\ \A t \in 1..Len(k.trace) :
           k.trace[t].e = "handler" => k.trace[t].val = TerminalResult(k)
      /\ CountTr(k, "handler") > 0 =>
           /\ k.waited = (IF d > 0 THEN d ELSE 0)
           /\ CountTr(k, "delayed") = (IF d > 0 THEN 1 ELSE 0)
      /\ k.pc = "done" =>
           /\ k.result.state = "resolved"
           /\ k.result.resp.status = TerminalResult(k).status
           /\ k.result.resp.src = TerminalResult(k).src

\* a call matched to a delayed route with handler hOk completed with them although its
\* route was re-registered with another handler and no delay while it was suspended
C33_Witness ==
  \E c \in CallIds :
    /\ calls[c].pc = "done" /\ Matched(calls[c])
    /\ calls[c].match.handler = "hOk" /\ calls[c].match.options.delay = 100
    /\ calls[c].result.resp.src = "hOk" /\ calls[c].waited = 100
    /\ Len(routes) = 1 /\ routes[1].handler = "hThrow" /\ routes[1].options.delay = 0

----------------------------------------------------------------------------
(* Updaters that suspend *)

----------------------------------------------------------------------------
(* The two paths of a call *)

\* C35: for every intercepted call the real network function is invoked at most once, and
\* never for a call for which a MOCK event was emitted or a mock handler was run.
C35_NetworkAtMostOnce ==
  \A c \in CallIds :
    LET k == calls[c] IN
    /\ Len(k.netCalls) <= 1
    /\ (CountEv(k, "ON_MOCK") > 0 \/ CountTr(k, "handler") > 0) => k.netCalls = <<>>

\* an unmatched call whose forward failed was not forwarded again
C35_Witness ==
  \E c \in CallIds :
    /\ calls[c].pc = "done" /\ ~Matched(calls[c])
    /\ Len(calls[c].netCalls) = 1 /\ NetworkFailed(calls[c])
    /\ calls[c].result.state = "rejected"

\* C36: for a matched route with delay d > 0 the wait happens inside the terminal
\* operation: after every middleware has invoked its continuation (or, failing before
\* that, had the chain continue in its place), and right before the handler is invoked,
\* which so starts only after d milliseconds; with d <= 0 the handler is invoked right
\* away, without a timer.
C36_DelayInsideTerminal ==
  \A c \in CallIds :
    LET k == calls[c] d == k.match.options.delay IN
    Matched(k) =>
      /\ \A t \in 1..Len(k.trace) :
           /\ k.trace[t].e = "terminal" =>
                /\ \A p \in 1..Len(middlewares) :
                     \E u \in 1..(t - 1) :
                       k.trace[u] = Tr("enter", p, NoResp) /\ k.trace[u + 1].e # "return"
                /\ t < Len(k.trace) =>
                     k.trace[t + 1].e = (IF d > 0 THEN "delayed" ELSE "handler")
           /\ k.trace[t].e = "handler" =>
                /\ t > 1
                /\ k.trace[t - 1].e = (IF d > 0 THEN "delayed" ELSE "terminal")
           /\ k.trace[t].e = "delayed" => d > 0 /\ t > 1 /\ k.trace[t - 1].e = "terminal"
      /\ k.waited = (IF d > 0 THEN d ELSE 0) * CountTr(k, "delayed")
      /\ CountTr(k, "handler") > 0 => k.waited >= (IF d > 0 THEN d ELSE 0)
      /\ k.pc = "delay" => d > 0 /\ Last(k.trace).e = "terminal"
      /\ k.pc = "handler" => Last(k.trace).e = (IF d > 0 THEN "delayed" ELSE "terminal")

----------------------------------------------------------------------------
(* Termination of a call *)

\* C38: provided normalization, every middleware, the handler, the delay timer and the
\* real network function each settle, every intercepted call settles: it resolves with
\* a response or rejects with the failure of the forward.
C38_CallSettles ==
  \A c \in CallIds :
    (calls[c].pc # "idle") ~>
      (/\ calls[c].pc = "done"
       /\ calls[c].result.state \in {"resolved", "rejected"}
       /\ calls[c].result.state = "rejected" => NetworkFailed(calls[c]))

\* a call through a middleware that called its continuation twice, to a delayed route,
\* has resolved
C38_Witness ==
  \E c \in CallIds :
    /\ calls[c].pc = "done" /\ calls[c].result.state = "resolved"
    /\ middlewares = <<"twiceUncaught", "againCatch">>
    /\ calls[c].waited >= 100

----------------------------------------------------------------------------
(* Lifetime of a container *)

\* what the store call just made returned and left behind
LifetimeCallEffect ==
  LET op == lastStore IN
  /\ op.op = "getStore" => op.store = op.had
  /\ op.op = "createStore" =>
       /\ StateStoreManager_getStore(stores, op.key) = op.store
       /\ IF op.had # NoStore
          THEN op.store = op.had
          ELSE /\ op.store = Len(containers)
               /\ containers[op.store].data = op.arg
               /\ \A i \in 1..Len(stores) : stores[i].store = op.store => stores[i].key = op.key
               /\ issued[op.store].n = 0
               /\ Observed(containers, heap, op.store).count = issued[op.store].initial
  /\ op.op = "deleteStore" => StateStoreManager_getStore(stores, op.key) = NoStore
  /\ op.op \in {"clearAll", "cleanup"} =>
       \A key \in StoreKeys : StateStoreManager_getStore(stores, key) = NoStore

\* every container holds its initial count plus the updates made through its own handle
OwnUpdatesOnly ==
  \A s \in 1..Len(containers) :
    Observed(containers, heap, s).count = issued[s].initial + issued[s].n

\* a key keeps its container through every call but its deleteStore and a clear, and
\* a key without a container gets one only by its createStore
LivesUntilDeleted ==
  \A key \in StoreKeys :
    LET before == StateStoreManager_getStore(stores, key)
        after == StateStoreManager_getStore(stores', key)
    IN after # before =>
         \/ /\ before # NoStore
            /\ after = NoStore
            /\ \/ lastStore'.op \in {"clearAll", "cleanup"}
               \/ (lastStore'.op = "deleteStore" /\ lastStore'.key = key)
         \/ /\ before = NoStore
            /\ lastStore'.op = "createStore"
            /\ lastStore'.key = key
            /\ after = Len(containers')
            /\ Len(containers') = Len(containers) + 1

\* C39: a container lives under its key until deleteStore(key) or a full clear: while it
\* lives, getStore(key) and createStore(key, _) return that same container; after
\* deletion or clear getStore(key) is absent and createStore(key, v) creates a new
\* container holding v, and a set() through a handle to the old container is not visible
\* through the new one.
C39_ContainerLifetime ==
  [](LifetimeCallEffect /\ OwnUpdatesOnly) /\ [][LivesUntilDeleted]_vars

\* "cart" was created, deleted and created again with count 5; an update through the handle
\* of the first container changed that one only
C39_Witness ==
  /\ Len(containers) = 2
  /\ StateStoreManager_getStore(stores, "cart") = 2
  /\ lastStore.op = "set" /\ lastStore.store = 1
  /\ issued[1].n = 1
  /\ Observed(containers, heap, 1).count = issued[1].initial + 1
  /\ Observed(containers, heap, 2).count = 5 /\ issued[2] = [initial |-> 5, n |-> 0]
  /\ ~StateStoreManager_hasStore(stores, "user")

----------------------------------------------------------------------------
(* ApiMock.isActive *)

\* the facade's flag and the flag of its FetchWrapper agree; a cleanup, repeated or not,
\* leaves isActive() false and does not throw
FlagsAgree ==
  /\ apiMock.isInitialized = FetchWrapper_isActive(wrappers, apiMock.fetchWrapper)
  /\ (lastApi.op = "cleanup" /\ lastApi.who = "ApiMock") => ~ApiMock_isActive /\ ~lastApi.threw
  /\ (lastApi.op = "setup" /\ lastApi.who = "ApiMock") => ApiMock_isActive /\ ~lastApi.threw

\* isActive() becomes true by ApiMock.setup, false by ApiMock.cleanup, and is left as it
\* is by every other call
ActiveTracksSetup ==
  LET byApi == lastApi'.who = "ApiMock" IN
  ApiMock_isActive' =
    IF byApi /\ lastApi'.op = "setup" THEN TRUE
    ELSE IF byApi /\ lastApi'.op = "cleanup" THEN FALSE
    ELSE ApiMock_isActive

====
